---- MODULE Spec2Model ----
(***************************************************************************)
(* Blood-pressure diary bot: the conversation dispatcher                   *)
(* (src/src/dispatchers/__init__.py), the reminder / forgot / measurement  *)
(* models (src/src/models/__init__.py) and the inbound handler and the     *)
(* reminder worker (src/src/bot/__init__.py).                              *)
(*                                                                         *)
(* Conventions.  An Optional[T] value is a tuple: <<>> is None, <<v>> is   *)
(* a present v.  Time is whole seconds since the epoch.  A message text is *)
(* a tuple of one-character strings.  The three collaborators (chat        *)
(* transport, record store, geocoder) are the environment: a send or an    *)
(* upsert may raise, and the geocoder's answer is an input.                *)
(***************************************************************************)
EXTENDS Integers, Sequences, FiniteSets, TLC

VARIABLES
    now,        \* the wall clock read by datetime.now() / utcnow()
    db,         \* db.table("users"): chat id -> Optional user document
    order,      \* the table's documents in insertion order (chat ids), as all() lists them
    inflight,   \* Optional: an inbound handle() that has loaded its user and not yet run transit
    wpc,        \* the worker thread: "sleep" | "run" | "dead"
    wq,         \* user objects the running cycle has loaded and not finished (the head is in progress)
    wstep,      \* which check of the head user comes next: 1 morning, 2 evening, 3 forgot
    sent,       \* what the last step sent: a sequence of [chat, parts], parts the joined messages
    last,       \* what the last step was: the call, its inputs and its outcome
    cause,      \* observer: per chat, the reminder delivery a forgot nudge can answer
    notified,   \* observer: per chat and reminder, the due instant last notified
    start_time  \* the worker's start_time: the start of the minute in which the thread began

vars == <<now, db, order, inflight, wpc, wq, wstep, sent, last, cause, notified, start_time>>

(***************************************************************************)
(* Bounds of the model and constants of the program                        *)
(***************************************************************************)
MaxClock == 2           \* the clock is read at the instants 0..MaxClock
MaxMeasurements == 1    \* a history longer than this is not extended

Day == 86400            \* datetime.timedelta(days=1), in seconds
Minute == 60            \* replace(second=0, microsecond=0) truncates to this
FORGOT_DELTA == 3600    \* _FORGOT_DELTA = timedelta(minutes=60), in seconds
ServerOffset == 10800   \* the host's zone, TZ=Europe/Moscow: UTC+3 all year
MaxValue == 1000        \* Measurement._parse's upper limit
MaxHour == 24           \* Reminder.new's upper limit for the hour
MaxMinutes == 60        \* Reminder.new's upper limit for the minutes

None == <<>>
Some(v) == <<v>>
IsSome(o) == o # <<>>
The(o) == o[1]

(***************************************************************************)
(* class State                                                             *)
(***************************************************************************)
INITIAL == "initial"
HISTORY == "history"
START == "start"
NOTIFY_MORNING == "notify_morning"
NOTIFY_EVENING == "notify_evening"
NOTIFY_FORGOT == "notify_forgot"
WAIT_FOR_MORNING_TIME == "wait_for_morning_time"
WAIT_FOR_EVENING_TIME == "wait_for_evening_time"
WAIT_FOR_TZ_WHEN == "wait_for_tz_when"
WAIT_FOR_TZ_HISTORY == "wait_for_tz_history"
WAIT_FOR_TZ == "wait_for_tz"
WAIT == "wait"
RECORD == "record"
STOP == "stop"
STATUS == "status"

State == {INITIAL, HISTORY, START, NOTIFY_MORNING, NOTIFY_EVENING, NOTIFY_FORGOT,
          WAIT_FOR_MORNING_TIME, WAIT_FOR_EVENING_TIME, WAIT_FOR_TZ_WHEN,
          WAIT_FOR_TZ_HISTORY, WAIT_FOR_TZ, WAIT, RECORD, STOP, STATUS}

(***************************************************************************)
(* The transition table.  '*' is every state of the machine.               *)
(***************************************************************************)
transitions == <<
    <<"to_start", {INITIAL}, START>>,
    <<"to_wait", State, WAIT>>,
    <<"to_wait_for_tz", {STOP, WAIT}, WAIT_FOR_TZ>>,
    <<"to_wait_for_tz_when", {STOP, WAIT}, WAIT_FOR_TZ_WHEN>>,
    <<"to_wait_for_tz_history", {STOP, WAIT}, WAIT_FOR_TZ_HISTORY>>,
    <<"to_wait_for_morning_time", {STOP, WAIT, WAIT_FOR_TZ_WHEN}, WAIT_FOR_MORNING_TIME>>,
    <<"to_wait_for_evening_time", {WAIT_FOR_MORNING_TIME}, WAIT_FOR_EVENING_TIME>>,
    <<"to_record", {WAIT}, RECORD>>,
    <<"to_stop", State, STOP>>,
    <<"to_history", {STOP, WAIT, WAIT_FOR_TZ_HISTORY}, HISTORY>>,
    <<"to_notify_morning", {WAIT}, NOTIFY_MORNING>>,
    <<"to_notify_evening", {WAIT}, NOTIFY_EVENING>>,
    <<"to_notify_forgot", {WAIT}, NOTIFY_FORGOT>>,
    <<"to_status", {STOP, WAIT}, STATUS>> >>

\* CanTrigger with every row read as if its source were '*'.
CanTrigger_any_source(trigger, source) ==
    \E i \in 1..Len(transitions) : transitions[i][1] = trigger

\* Machine.dispatch(trigger): the trigger is valid in `source` when a row of the
\* table carries it with `source` among its sources; otherwise MachineError.
CanTrigger(trigger, source) ==
    \E i \in 1..Len(transitions) :
        transitions[i][1] = trigger /\ source \in transitions[i][2]

\* The destination of a valid trigger (each trigger has one row).
Dest(trigger) ==
    transitions[CHOOSE k \in 1..Len(transitions) : transitions[k][1] = trigger][3]

(***************************************************************************)
(* Texts                                                                   *)
(***************************************************************************)
Digits == {"0", "1", "2", "3", "4", "5", "6", "7", "8", "9"}

DigitValue(ch) ==
    CASE ch = "0" -> 0 [] ch = "1" -> 1 [] ch = "2" -> 2 [] ch = "3" -> 3
      [] ch = "4" -> 4 [] ch = "5" -> 5 [] ch = "6" -> 6 [] ch = "7" -> 7
      [] ch = "8" -> 8 [] ch = "9" -> 9

\* str.split(sep): the pieces between the occurrences of the one-character sep.
RECURSIVE SplitFrom(_, _, _, _)
SplitFrom(s, sep, i, cur) ==
    IF i > Len(s) THEN <<cur>>
    ELSE IF s[i] = sep THEN <<cur>> \o SplitFrom(s, sep, i + 1, <<>>)
    ELSE SplitFrom(s, sep, i + 1, Append(cur, s[i]))

Split(s, sep) == SplitFrom(s, sep, 1, <<>>)

RECURSIVE DigitsValue(_, _)
DigitsValue(s, acc) ==
    IF s = <<>> THEN acc ELSE DigitsValue(Tail(s), 10 * acc + DigitValue(Head(s)))

\* int(s) for a text over this model's alphabet: an optional sign and then one
\* or more digits; anything else raises ValueError.
IntOk(s) ==
    /\ s # <<>>
    /\ IF Head(s) \in {"+", "-"}
       THEN Len(s) > 1 /\ \A i \in 2..Len(s) : s[i] \in Digits
       ELSE \A i \in 1..Len(s) : s[i] \in Digits

IntOf(s) ==
    IF Head(s) = "-" THEN 0 - DigitsValue(Tail(s), 0)
    ELSE IF Head(s) = "+" THEN DigitsValue(Tail(s), 0)
    ELSE DigitsValue(s, 0)

(***************************************************************************)
(* class TZ.  pytz gives the zone's UTC offset; the zone named here has    *)
(* had one offset all year since 2014.  The geocoder's answer is an input  *)
(* of the handler: a zone name, or None when it finds nothing.             *)
(***************************************************************************)
Zones == {"Europe/Moscow"}

UtcOffset(name) == IF name = "Europe/Moscow" THEN ServerOffset ELSE 0

\* TZ.from_city(name): Optional TZ; None is the raise (a TypeError on an empty
\* geocoder answer, or the ValueError on an empty timezone_at answer).
TZ_from_city(text, geo) ==
    IF ~IsSome(text) \/ ~IsSome(geo) THEN None ELSE Some([name |-> The(geo)])

(***************************************************************************)
(* class Reminder                                                          *)
(***************************************************************************)
\* datetime.fromtimestamp(ts) and naive.timestamp() in the host's zone.
FromTimestamp(ts) == ts + ServerOffset
ToTimestamp(naive) == naive - ServerOffset

\* Reminder.is_notify_needed answering a day ahead of the next time.
Reminder_is_notify_needed_early(r, clock) == r.next_time_ts <= clock + Day

\* Reminder.is_notify_needed
Reminder_is_notify_needed(r, clock) == r.next_time_ts <= clock

\* update_next_time computing the next time from now instead of from the time
\* that has come.
Reminder_update_next_time_from_now(r, clock) ==
    IF ~Reminder_is_notify_needed(r, clock) THEN None
    ELSE Some([r EXCEPT !.next_time_ts = ToTimestamp(FromTimestamp(clock) + Day)])

\* update_next_time moving the next time past the clock, by as many days as
\* it takes.
Reminder_update_next_time_past_now(r, clock) ==
    IF ~Reminder_is_notify_needed(r, clock) THEN None
    ELSE Some([r EXCEPT !.next_time_ts =
                   ToTimestamp(FromTimestamp(r.next_time_ts)
                                   + Day * (((clock - r.next_time_ts) \div Day) + 1))])

\* update_next_time without its is_notify_needed test.
Reminder_update_next_time_unguarded(r, clock) ==
    Some([r EXCEPT !.next_time_ts = ToTimestamp(FromTimestamp(r.next_time_ts) + Day)])

\* Reminder.update_next_time: Optional Reminder; None is the ValueError.
Reminder_update_next_time(r, clock) ==
    IF ~Reminder_is_notify_needed(r, clock) THEN None
    ELSE Some([r EXCEPT !.next_time_ts = ToTimestamp(FromTimestamp(r.next_time_ts) + Day)])

\* _get_next_time returning today's occurrence whether or not it has passed.
Reminder_get_next_time_ts_today(hour, minutes, off, clock) ==
    ((clock + off) - ((clock + off) % Day)) + hour * 3600 + minutes * 60 - off

\* Reminder._get_next_time(hour, minutes, tz).timestamp(): datetime.replace keeps
\* the date and the offset that now() has in the zone.  The caller has checked
\* that replace accepts the fields.
Reminder_get_next_time_ts(hour, minutes, off, clock) ==
    IF ((clock + off) - ((clock + off) % Day)) + hour * 3600 + minutes * 60 > clock + off
    THEN ((clock + off) - ((clock + off) % Day)) + hour * 3600 + minutes * 60 - off
    ELSE ((clock + off) - ((clock + off) % Day)) + hour * 3600 + minutes * 60 + Day - off

\* Reminder._parse(r): Optional int; None is the ValueError (a bad length, or
\* int() refusing the text).  The test r[0] == 0 compares a character with an
\* integer and never holds, so int(r) is what is returned.
Reminder_parse(r) ==
    IF Len(r) > 2 \/ Len(r) < 1 THEN None
    ELSE IF ~IntOk(r) THEN None
    ELSE Some(IntOf(r))

\* Reminder.new accepting tz=None: the reminder is computed in UTC.
Reminder_checked_without_zone(hour, minutes, tz, clock) ==
    IF ~IsSome(hour) \/ ~IsSome(minutes) THEN None
    ELSE IF The(hour) < 0 \/ The(hour) > MaxHour THEN None
    ELSE IF The(minutes) < 0 \/ The(minutes) > MaxMinutes THEN None
    ELSE IF The(hour) > 23 \/ The(minutes) > 59 THEN None
    ELSE Some([hour |-> The(hour), minutes |-> The(minutes),
               next_time_ts |-> Reminder_get_next_time_ts(
                                    The(hour), The(minutes),
                                    IF IsSome(tz) THEN UtcOffset(The(tz).name) ELSE 0, clock),
               tz |-> IF IsSome(tz) THEN The(tz) ELSE [name |-> "UTC"]])

\* Reminder.new(data, tz) after the split, hour and minutes being the two
\* _parse results: Optional Reminder; None is a raise: _parse, the two range
\* checks, pydantic refusing tz=None, or datetime.replace refusing hour 24 or
\* minute 60.
Reminder_checked(hour, minutes, tz, clock) ==
    IF ~IsSome(hour) \/ ~IsSome(minutes) THEN None
    ELSE IF The(hour) < 0 \/ The(hour) > MaxHour THEN None
    ELSE IF The(minutes) < 0 \/ The(minutes) > MaxMinutes THEN None
    ELSE IF ~IsSome(tz) THEN None
    ELSE IF The(hour) > 23 \/ The(minutes) > 59 THEN None
    ELSE Some([hour |-> The(hour), minutes |-> The(minutes),
               next_time_ts |-> Reminder_get_next_time_ts(The(hour), The(minutes),
                                                          UtcOffset(The(tz).name), clock),
               tz |-> The(tz)])

\* Reminder.new(data, tz): hour, minutes = data.split(":") raises unless there
\* are exactly two pieces.
Reminder_unpacked(parts, tz, clock) ==
    IF Len(parts) # 2 THEN None
    ELSE Reminder_checked(Reminder_parse(parts[1]), Reminder_parse(parts[2]), tz, clock)

Reminder_new(data, tz, clock) == Reminder_unpacked(Split(data, ":"), tz, clock)

\* Reminder.format(tz): the reminder's time of day shown in the zone tz, in
\* seconds after midnight.
Reminder_format(r, tz) ==
    ((r.hour * 60 + r.minutes) * 60 - UtcOffset(r.tz.name) + UtcOffset(tz.name) + Day) % Day

(***************************************************************************)
(* class ReminderForgot                                                    *)
(***************************************************************************)
ReminderForgot_new == [latest_sent_ts |-> None]

\* The normalized timestamp of is_notify_needed: replace(second=0, microsecond=0).
Normalized(naive) == naive - (naive % Minute)

\* is_notify_needed without the delta.
ReminderForgot_is_notify_needed_no_delta(f, clock) ==
    IF ~IsSome(f.latest_sent_ts) \/ f.latest_sent_ts = Some(0) THEN FALSE
    ELSE Normalized(FromTimestamp(The(f.latest_sent_ts))) <= FromTimestamp(clock)

\* is_notify_needed without replace(second=0, microsecond=0).
ReminderForgot_is_notify_needed_untruncated(f, clock) ==
    IF ~IsSome(f.latest_sent_ts) \/ f.latest_sent_ts = Some(0) THEN FALSE
    ELSE FromTimestamp(The(f.latest_sent_ts)) + FORGOT_DELTA <= FromTimestamp(clock)

\* ReminderForgot.is_notify_needed: a None (or zero) timestamp is falsy.
ReminderForgot_is_notify_needed(f, clock) ==
    IF ~IsSome(f.latest_sent_ts) \/ f.latest_sent_ts = Some(0) THEN FALSE
    ELSE Normalized(FromTimestamp(The(f.latest_sent_ts))) + FORGOT_DELTA <= FromTimestamp(clock)

ReminderForgot_update(f, clock) == [f EXCEPT !.latest_sent_ts = Some(clock)]

ReminderForgot_reset(f) == [f EXCEPT !.latest_sent_ts = None]

(***************************************************************************)
(* class Measurement                                                       *)
(***************************************************************************)
\* Measurement._parse(data): Optional int; None is int()'s or the range ValueError.
Measurement_parse(data) ==
    IF ~IntOk(data) THEN None
    ELSE IF IntOf(data) < 0 \/ IntOf(data) > MaxValue THEN None
    ELSE Some(IntOf(data))

\* Measurement(high=..., low=..., ts=...) from the two _parse results.
Measurement_checked(high, low, timestamp) ==
    IF ~IsSome(high) \/ ~IsSome(low) THEN None
    ELSE Some([high |-> The(high), low |-> The(low), ts |-> timestamp])

\* high, low = data.split("/") raises unless there are exactly two pieces.
Measurement_unpacked(parts, timestamp) ==
    IF Len(parts) # 2 THEN None
    ELSE Measurement_checked(Measurement_parse(parts[1]), Measurement_parse(parts[2]), timestamp)

\* Measurement.from_string(data, timestamp): Optional Measurement.
Measurement_from_string(data, timestamp) == Measurement_unpacked(Split(data, "/"), timestamp)

\* datetime.utcnow().timestamp(): the naive UTC reading taken as host-local time.
UtcNowTimestamp(clock) == ToTimestamp(clock)

\* Measurement.format(tz): the reading and its time (ts read as host-local,
\* labelled UTC, shown in tz), to the minute.
Measurement_format(m, tz) ==
    <<m.high, m.low, Normalized(FromTimestamp(m.ts) + UtcOffset(tz.name))>>

(***************************************************************************)
(* class User                                                              *)
(***************************************************************************)
User_new(chat_id) ==
    [state |-> INITIAL,
     chat_id |-> chat_id,
     reminder_morning |-> None,
     reminder_evening |-> None,
     reminder_forgot |-> ReminderForgot_new,
     measurements |-> <<>>,
     tz |-> None]

(***************************************************************************)
(* class Messages.  A message is its kind and the data it shows.  A        *)
(* property that raises is None.                                           *)
(***************************************************************************)
Msg(kind, body) == [kind |-> kind, body |-> body]

Messages_stopped(u) == Some(Msg("stopped", <<>>))

\* Messages.tz: str(None) is shown when no zone is set.
Messages_tz(u) ==
    Some(Msg("tz", IF IsSome(u.tz) THEN <<UtcOffset(The(u.tz).name)>> ELSE <<>>))

\* Messages.reminders: formatting against a missing zone raises.
Messages_reminders(u) ==
    IF ~IsSome(u.reminder_morning) \/ ~IsSome(u.reminder_evening) THEN Messages_stopped(u)
    ELSE IF ~IsSome(u.tz) THEN None
    ELSE Some(Msg("reminders",
                  <<Reminder_format(The(u.reminder_morning), The(u.tz)),
                    Reminder_format(The(u.reminder_evening), The(u.tz))>>))

\* Messages.history: the measurements, latest first ([::-1]).
Messages_history(u) ==
    IF u.measurements = <<>> THEN Some(Msg("history_empty", <<>>))
    ELSE IF ~IsSome(u.tz) THEN None
    ELSE Some(Msg("history",
                  [i \in 1..Len(u.measurements) |->
                      Measurement_format(u.measurements[Len(u.measurements) + 1 - i], The(u.tz))]))

(***************************************************************************)
(* class UserDispatcher.  A call runs in a context x: the user object u,   *)
(* the machine's state, the messages sent so far (out), the exception      *)
(* raised (err, "none" while none), and the call's inputs: the message     *)
(* text (None for the worker, which passes message=None), the geocoder's   *)
(* answer, the clock, and which send of the call the transport refuses     *)
(* (failAt, 0 for none).  Once err is set every later step is skipped.     *)
(***************************************************************************)
Context(u, text, geo, clock, failAt) ==
    [u |-> u, state |-> u.state, out |-> <<>>, err |-> "none",
     text |-> text, geo |-> geo, clock |-> clock, failAt |-> failAt]

Raise(x, e) == IF x.err # "none" THEN x ELSE [x EXCEPT !.err = e]

\* UserDispatcher.send(*messages): the arguments are evaluated first (one that
\* raises sends nothing), then bot.send_message is called once with the lines joined.
send(x, parts) ==
    IF x.err # "none" THEN x
    ELSE IF \E i \in 1..Len(parts) : ~IsSome(parts[i]) THEN Raise(x, "Exception")
    ELSE IF Len(x.out) + 1 = x.failAt THEN Raise(x, "Exception")
    ELSE [x EXCEPT !.out = Append(@, [chat |-> x.u.chat_id,
                                       parts |-> [i \in 1..Len(parts) |-> The(parts[i])]])]

\* self.user.reminder_morning = <r>, where r raised (None) or is the new reminder.
assign_reminder_morning(x, r) ==
    IF x.err # "none" THEN x
    ELSE IF ~IsSome(r) THEN Raise(x, "Exception")
    ELSE [x EXCEPT !.u.reminder_morning = r]

\* self.user.reminder_evening = <r>; self.user.reminder_forgot = ReminderForgot.new()
assign_reminder_evening(x, r) ==
    IF x.err # "none" THEN x
    ELSE IF ~IsSome(r) THEN Raise(x, "Exception")
    ELSE [x EXCEPT !.u.reminder_evening = r, !.u.reminder_forgot = ReminderForgot_new]

\* self.user.tz = <tz>, where tz raised (None) or is the zone found.
assign_tz(x, tz) ==
    IF x.err # "none" THEN x
    ELSE IF ~IsSome(tz) THEN Raise(x, "Exception")
    ELSE [x EXCEPT !.u.tz = tz]

\* self.send(self.messages.thanks, self.messages.reminders)
send_thanks_reminders(x) == send(x, <<Some(Msg("thanks", <<>>)), Messages_reminders(x.u)>>)

\* self.send(self.messages.thanks, self.messages.tz)
send_thanks_tz(x) == send(x, <<Some(Msg("thanks", <<>>)), Messages_tz(x.u)>>)

\* self.message.text: an AttributeError when the message is None.
on_exit_WAIT_FOR_MORNING_TIME(x) ==
    IF ~IsSome(x.text) THEN Raise(x, "Exception")
    ELSE assign_reminder_morning(x, Reminder_new(The(x.text), x.u.tz, x.clock))

on_exit_WAIT_FOR_EVENING_TIME(x) ==
    IF ~IsSome(x.text) THEN Raise(x, "Exception")
    ELSE send_thanks_reminders(
             assign_reminder_evening(x, Reminder_new(The(x.text), x.u.tz, x.clock)))

\* The exit callback of the WAIT_FOR_TZ states sending its confirmation before
\* the zone is looked up and assigned.
on_exit_WAIT_FOR_TZ_send_first(x) == assign_tz(send_thanks_tz(x), TZ_from_city(x.text, x.geo))

\* on_exit_WAIT_FOR_TZ, on_exit_WAIT_FOR_TZ_WHEN, on_exit_WAIT_FOR_TZ_HISTORY
on_exit_WAIT_FOR_TZ(x) == send_thanks_tz(assign_tz(x, TZ_from_city(x.text, x.geo)))

\* State.exit: the on_exit_<STATE> callback of the model, for the states that have one.
on_exit(x, s) ==
    IF x.err # "none" THEN x
    ELSE CASE s = WAIT_FOR_MORNING_TIME -> on_exit_WAIT_FOR_MORNING_TIME(x)
           [] s = WAIT_FOR_EVENING_TIME -> on_exit_WAIT_FOR_EVENING_TIME(x)
           [] s \in {WAIT_FOR_TZ, WAIT_FOR_TZ_WHEN, WAIT_FOR_TZ_HISTORY} -> on_exit_WAIT_FOR_TZ(x)
           [] OTHER -> x

\* on_enter_STOP clearing the history along with the reminders.
on_enter_STOP_clearing_history(x) ==
    send([x EXCEPT !.u.reminder_morning = None, !.u.reminder_evening = None,
                   !.u.measurements = <<>>],
         <<Messages_stopped(x.u)>>)

on_enter_STOP(x) ==
    send([x EXCEPT !.u.reminder_morning = None, !.u.reminder_evening = None],
         <<Messages_stopped(x.u)>>)

\* on_enter_RECORD's append written as an assignment of the new measurement.
append_measure_replacing(x, measure) ==
    IF ~IsSome(measure) THEN Raise(x, "Exception")
    ELSE [x EXCEPT !.u.measurements = <<The(measure)>>,
                   !.u.reminder_forgot = ReminderForgot_reset(@)]

\* on_enter_RECORD's append putting the new measurement first.
append_measure_in_front(x, measure) ==
    IF ~IsSome(measure) THEN Raise(x, "Exception")
    ELSE [x EXCEPT !.u.measurements = <<The(measure)>> \o @,
                   !.u.reminder_forgot = ReminderForgot_reset(@)]

\* self.user.measurements.append(measure); self.user.reminder_forgot.reset()
append_measure(x, measure) ==
    IF ~IsSome(measure) THEN Raise(x, "Exception")
    ELSE [x EXCEPT !.u.measurements = Append(@, The(measure)),
                   !.u.reminder_forgot = ReminderForgot_reset(@)]

\* on_enter_RECORD up to its closing transit(WAIT).
on_enter_RECORD(x) ==
    IF ~IsSome(x.text) THEN Raise(x, "Exception")
    ELSE send(append_measure(x, Measurement_from_string(The(x.text), UtcNowTimestamp(x.clock))),
              <<Some(Msg("thanks_record", <<>>))>>)

\* self.user.reminder_morning.update_next_time(): in place, so the user object
\* keeps the new time when a later statement raises.
update_reminder_morning(x) ==
    IF ~IsSome(x.u.reminder_morning) THEN Raise(x, "Exception")
    ELSE IF ~IsSome(Reminder_update_next_time(The(x.u.reminder_morning), x.clock))
         THEN Raise(x, "Exception")
    ELSE [x EXCEPT !.u.reminder_morning = Reminder_update_next_time(The(@), x.clock)]

update_reminder_evening(x) ==
    IF ~IsSome(x.u.reminder_evening) THEN Raise(x, "Exception")
    ELSE IF ~IsSome(Reminder_update_next_time(The(x.u.reminder_evening), x.clock))
         THEN Raise(x, "Exception")
    ELSE [x EXCEPT !.u.reminder_evening = Reminder_update_next_time(The(@), x.clock)]

\* self.user.reminder_forgot.update()
update_reminder_forgot(x) ==
    IF x.err # "none" THEN x
    ELSE [x EXCEPT !.u.reminder_forgot = ReminderForgot_update(@, x.clock)]

\* self.user.reminder_forgot.reset()
reset_reminder_forgot(x) ==
    IF x.err # "none" THEN x
    ELSE [x EXCEPT !.u.reminder_forgot = ReminderForgot_reset(@)]

\* on_enter_NOTIFY_MORNING sending before update_next_time is called.
on_enter_NOTIFY_MORNING_send_first(x) ==
    update_reminder_forgot(update_reminder_morning(send(x, <<Some(Msg("notify_morning", <<>>))>>)))

\* on_enter_NOTIFY_MORNING up to its closing transit(WAIT).
on_enter_NOTIFY_MORNING(x) ==
    update_reminder_forgot(send(update_reminder_morning(x), <<Some(Msg("notify_morning", <<>>))>>))

\* on_enter_NOTIFY_EVENING up to its closing transit(WAIT).
on_enter_NOTIFY_EVENING(x) ==
    update_reminder_forgot(send(update_reminder_evening(x), <<Some(Msg("notify_evening", <<>>))>>))

\* on_enter_NOTIFY_FORGOT up to its closing transit(WAIT).
on_enter_NOTIFY_FORGOT(x) ==
    reset_reminder_forgot(send(x, <<Some(Msg("notify_forgot", <<>>))>>))

\* The states whose on_enter callback ends with self.transit(State.WAIT).
Bouncing == {START, HISTORY, RECORD, STATUS, NOTIFY_MORNING, NOTIFY_EVENING, NOTIFY_FORGOT}

\* State.enter: the on_enter_<STATE> callback, without the closing transit(WAIT)
\* of a bouncing state, which transit runs right after it.
on_enter(x, s) ==
    IF x.err # "none" THEN x
    ELSE CASE s = START -> send(x, <<Some(Msg("starting", <<>>))>>)
           [] s = STOP -> on_enter_STOP(x)
           [] s = HISTORY -> send(x, <<Messages_history(x.u)>>)
           [] s = RECORD -> on_enter_RECORD(x)
           [] s = STATUS -> send(x, <<Messages_reminders(x.u)>>)
           [] s = NOTIFY_MORNING -> on_enter_NOTIFY_MORNING(x)
           [] s = NOTIFY_EVENING -> on_enter_NOTIFY_EVENING(x)
           [] s = NOTIFY_FORGOT -> on_enter_NOTIFY_FORGOT(x)
           [] s = WAIT_FOR_MORNING_TIME -> send(x, <<Some(Msg("wait_for_morning_time", <<>>))>>)
           [] s = WAIT_FOR_EVENING_TIME -> send(x, <<Some(Msg("wait_for_evening_time", <<>>))>>)
           [] s = WAIT_FOR_TZ -> send(x, <<Some(Msg("wait_for_tz", <<>>))>>)
           [] s = WAIT_FOR_TZ_WHEN -> send(x, <<Some(Msg("wait_for_tz_when", <<>>))>>)
           [] s = WAIT_FOR_TZ_HISTORY -> send(x, <<Some(Msg("wait_for_tz_history", <<>>))>>)
           [] OTHER -> x

\* dispatch_exit with the source's exit callback run before the table is asked.
dispatch_exit_callback_first(x, trigger) ==
    IF x.err # "none" THEN x
    ELSE IF ~CanTrigger(trigger, x.state) THEN Raise(on_exit(x, x.state), "MachineError")
    ELSE on_exit(x, x.state)

\* Machine.dispatch(trigger), first half: MachineError when the table does not
\* allow the trigger from the machine's state, else the source's exit callback.
dispatch_exit(x, trigger) ==
    IF x.err # "none" THEN x
    ELSE IF ~CanTrigger(trigger, x.state) THEN Raise(x, "MachineError")
    ELSE on_exit(x, x.state)

\* Machine.dispatch(trigger), second half: the machine's state is set and the
\* destination's enter callback runs.
dispatch_enter(x, trigger) ==
    IF x.err # "none" THEN x
    ELSE on_enter([x EXCEPT !.state = Dest(trigger)], Dest(trigger))

\* self.user.state = self.state
assign_state(x) == IF x.err # "none" THEN x ELSE [x EXCEPT !.u.state = x.state]

\* An enter callback without its closing self.transit(State.WAIT).
closing_transit_left_out(x) == x

\* UserDispatcher.transit(state): dispatch the trigger "to_" + state.value, the
\* closing self.transit(State.WAIT) of a bouncing state's enter callback, and
\* then user.state takes the machine's state.
RECURSIVE transit(_, _)
closing_transit(x) ==
    IF x.err = "none" /\ x.state \in Bouncing THEN transit(x, WAIT) ELSE x

transit(x, state) ==
    assign_state(closing_transit(dispatch_enter(dispatch_exit(x, "to_" \o state), "to_" \o state)))

(***************************************************************************)
(* The inbound texts of the model and the handlers' filters                *)
(***************************************************************************)
T_start == <<"/", "s", "t", "a", "r", "t">>
T_stop == <<"/", "s", "t", "o", "p">>
T_history == <<"/", "h", "i", "s", "t", "o", "r", "y">>
T_when == <<"/", "w", "h", "e", "n">>
T_where == <<"/", "w", "h", "e", "r", "e">>
T_status == <<"/", "s", "t", "a", "t", "u", "s">>
T_0400 == <<"0", "4", ":", "0", "0">>
T_0500 == <<"0", "5", ":", "0", "0">>
T_2400 == <<"2", "4", ":", "0", "0">>
T_120_80 == <<"1", "2", "0", "/", "8", "0">>
T_1001_80 == <<"1", "0", "0", "1", "/", "8", "0">>
T_0_1000 == <<"0", "/", "1", "0", "0", "0">>
T_city == <<"M", "o", "s", "c", "o", "w">>

Texts == {T_start, T_stop, T_history, T_when, T_where, T_status,
          T_0400, T_0500, T_2400, T_120_80, T_1001_80, T_city}

\* commands=[...]: the text is a command and its name (after the slash) is listed.
IsCommand(text, name) == text # <<>> /\ Head(text) = "/" /\ Tail(text) = name

\* regexp=r'\d\d\:\d\d' (re.search)
MatchesTime(text) ==
    \E i \in 1..Len(text) :
        /\ i + 4 <= Len(text)
        /\ text[i] \in Digits /\ text[i + 1] \in Digits /\ text[i + 2] = ":"
        /\ text[i + 3] \in Digits /\ text[i + 4] \in Digits

\* regexp=r'\d{1,3}\/\d{1,3}' (re.search)
MatchesRecord(text) ==
    \E i \in 1..Len(text) :
        /\ i + 2 <= Len(text)
        /\ text[i] \in Digits /\ text[i + 1] = "/" /\ text[i + 2] \in Digits

\* _check_state(message, state)
check_state(stored, state) == IsSome(stored) /\ The(stored).state = state

\* The message handlers in the order they are registered; the first whose filter
\* matches gets the message.  The answer is what it does: call handle with a
\* target state, send the thinking face, or (handle_history and handle_when for
\* a chat with no record) raise before handle is reached.
Route(text, stored) ==
    IF IsCommand(text, Tail(T_start)) THEN [do |-> "handle", state |-> START]
    ELSE IF IsCommand(text, Tail(T_stop)) THEN [do |-> "handle", state |-> STOP]
    ELSE IF IsCommand(text, Tail(T_history)) THEN
        IF ~IsSome(stored) THEN [do |-> "raise", state |-> HISTORY]
        ELSE IF ~IsSome(The(stored).tz) THEN [do |-> "handle", state |-> WAIT_FOR_TZ_HISTORY]
        ELSE [do |-> "handle", state |-> HISTORY]
    ELSE IF IsCommand(text, Tail(T_when)) THEN
        IF ~IsSome(stored) THEN [do |-> "raise", state |-> WAIT_FOR_MORNING_TIME]
        ELSE IF ~IsSome(The(stored).tz) THEN [do |-> "handle", state |-> WAIT_FOR_TZ_WHEN]
        ELSE [do |-> "handle", state |-> WAIT_FOR_MORNING_TIME]
    ELSE IF IsCommand(text, Tail(T_where)) THEN [do |-> "handle", state |-> WAIT_FOR_TZ]
    ELSE IF IsCommand(text, Tail(T_status)) THEN [do |-> "handle", state |-> STATUS]
    ELSE IF MatchesTime(text) /\ check_state(stored, WAIT_FOR_MORNING_TIME)
        THEN [do |-> "handle", state |-> WAIT_FOR_EVENING_TIME]
    ELSE IF MatchesTime(text) /\ check_state(stored, WAIT_FOR_EVENING_TIME)
        THEN [do |-> "handle", state |-> WAIT]
    ELSE IF MatchesRecord(text) /\ check_state(stored, WAIT) THEN [do |-> "handle", state |-> RECORD]
    ELSE IF check_state(stored, WAIT_FOR_TZ) THEN [do |-> "handle", state |-> WAIT]
    ELSE IF check_state(stored, WAIT_FOR_TZ_WHEN) THEN [do |-> "handle", state |-> WAIT_FOR_MORNING_TIME]
    ELSE IF check_state(stored, WAIT_FOR_TZ_HISTORY) THEN [do |-> "handle", state |-> HISTORY]
    ELSE [do |-> "think", state |-> WAIT]

(***************************************************************************)
(* The record store and the error handler                                  *)
(***************************************************************************)
\* error_handler with the wrong-state reply in both except clauses.
ErrorReply_wrong_state_only(chat, err) ==
    [chat |-> chat, parts |-> <<Msg("wrong_state", <<>>)>>]

\* error_handler's except clauses: the reply for a MachineError and the reply
\* for any other exception.
ErrorReply(chat, err) ==
    [chat |-> chat,
     parts |-> <<Msg(IF err = "MachineError" THEN "wrong_state" ELSE "general_error", <<>>)>>]

\* The exception error_handler catches when the transit ended in context x and
\* the store refuses the upsert (dbFail) or not.
Caught(x, dbFail) == IF x.err = "none" /\ dbFail THEN "Exception" ELSE x.err

\* A block `with error_handler(chat_id): <transit>; <upsert>` whose transit ended
\* in context x.  Inputs: whether the store refuses the upsert (dbFail) and
\* whether the transport refuses the error reply (ehFail), in which case the
\* exception leaves error_handler (escaped).  The answer: the user object, whether
\* its document was written (wrote), how many messages the transit sent (sends),
\* everything sent (out), the exception caught (err).
Guarded(x, dbFail, ehFail) ==
    [u |-> x.u,
     wrote |-> Caught(x, dbFail) = "none",
     sends |-> Len(x.out),
     out |-> IF Caught(x, dbFail) = "none" \/ ehFail THEN x.out
             ELSE Append(x.out, ErrorReply(x.u.chat_id, Caught(x, dbFail))),
     err |-> Caught(x, dbFail),
     escaped |-> Caught(x, dbFail) # "none" /\ ehFail]

\* What the environment may do to one call of handle: refuse its first or second
\* send (0 for neither), refuse the upsert, refuse the error reply.  A refused
\* send raises before the upsert is reached.
NoCallFault == [send |-> 0, db |-> FALSE, eh |-> FALSE]

CallFaults == {f \in [send : 0..2, db : BOOLEAN, eh : BOOLEAN] : ~(f.send > 0 /\ f.db)}

\* handle(message, state) from the loaded user on.
HandleCall(user, state, text, geo, clock, f) ==
    Guarded(transit(Context(user, Some(text), geo, clock, f.send), state), f.db, f.eh)

\* The faults that change what a call does, given the same call undisturbed
\* (x0, its final context): a send it makes, the upsert if it is reached, the
\* error reply if an exception is raised.
CallFaultsOf(x0) ==
    {f \in CallFaults :
        /\ f.send <= Len(x0.out)
        /\ f.db => x0.err = "none"
        /\ f.eh => (f.send > 0 \/ f.db \/ x0.err # "none")}

\* The loop body's conditions without the calls of is_notify_needed on the two
\* reminders: a reminder that is set is notified.
CheckDue_when_set(u, k, clock) ==
    IF k = 1 THEN IsSome(u.reminder_morning)
    ELSE IF k = 2 THEN IsSome(u.reminder_evening)
    ELSE ReminderForgot_is_notify_needed(u.reminder_forgot, clock)

\* The three conditions of the worker's loop body, in order.
CheckDue(u, k, clock) ==
    IF k = 1 THEN IsSome(u.reminder_morning) /\ Reminder_is_notify_needed(The(u.reminder_morning), clock)
    ELSE IF k = 2 THEN IsSome(u.reminder_evening) /\ Reminder_is_notify_needed(The(u.reminder_evening), clock)
    ELSE ReminderForgot_is_notify_needed(u.reminder_forgot, clock)

NotifyState(k) == IF k = 1 THEN NOTIFY_MORNING ELSE IF k = 2 THEN NOTIFY_EVENING ELSE NOTIFY_FORGOT

\* The instant check k of user u is due for: the reminder's next time, the
\* forgot tracker's latest time.
DueInstant(u, k) ==
    IF k = 1 THEN The(u.reminder_morning).next_time_ts
    ELSE IF k = 2 THEN The(u.reminder_evening).next_time_ts
    ELSE The(u.reminder_forgot.latest_sent_ts)

\* One `if` of the loop body whose condition holds: the transit with
\* message=None and the upsert.
CheckCall(u, k, clock, failAt, dbFail, ehFail) ==
    Guarded(transit(Context(u, None, None, clock, failAt), NotifyState(k)), dbFail, ehFail)

\* A fault of the environment during one user's block of a cycle: the check (1,
\* 2, 3; 0 for none) during which the transport ("send") or the store ("db")
\* refuses the call, and whether the transport refuses the error reply too.
NoFault == [k |-> 0, kind |-> "send", eh |-> FALSE]

Faults == {NoFault} \cup [k : 1..3, kind : {"send", "db"}, eh : BOOLEAN]

\* What a called check did: which check, the instant it was due for, whether
\* its notification went out, whether the document was written after it.
Entry(u, k, r) ==
    [k |-> k, due |-> DueInstant(u, k), delivered |-> r.sends > 0, wrote |-> r.wrote]

\* The loop body with its three checks chained by elif: the block ends after
\* the first check whose condition holds.
BlockAfter_first_check_only(u, k, clock, fault, r) ==
    [writes |-> IF r.err = "none" THEN <<r.u>> ELSE <<>>, out |-> r.out,
     log |-> <<Entry(u, k, r)>>, err |-> r.err, escaped |-> r.escaped,
     skipped |-> IF r.err = "none" THEN {} ELSE {j \in (k + 1)..3 : CheckDue(r.u, j, clock)}]

\* The body of `with error_handler(chat_id=user.chat_id)` for one loaded user,
\* from check k on: each check whose condition holds is called and the next one
\* sees the user object it left; a check that raises ends the block.  The
\* answer: the documents written, in order, everything sent, the checks called
\* (log), the exception caught (if any), whether it left error_handler, and the
\* later checks whose condition holds on the user object as the raise left it.
RECURSIVE UserBlock(_, _, _, _)
BlockAfter(u, k, clock, fault, r) ==
    IF r.err # "none"
    THEN [writes |-> <<>>, out |-> r.out, log |-> <<Entry(u, k, r)>>, err |-> r.err,
          escaped |-> r.escaped, skipped |-> {j \in (k + 1)..3 : CheckDue(r.u, j, clock)}]
    ELSE [UserBlock(r.u, k + 1, clock, fault) EXCEPT
             !.writes = <<r.u>> \o @, !.out = r.out \o @, !.log = <<Entry(u, k, r)>> \o @]

UserBlock(u, k, clock, fault) ==
    IF k > 3
    THEN [writes |-> <<>>, out |-> <<>>, log |-> <<>>, err |-> "none", escaped |-> FALSE, skipped |-> {}]
    ELSE IF ~CheckDue(u, k, clock) THEN UserBlock(u, k + 1, clock, fault)
    ELSE BlockAfter(u, k, clock, fault,
                    CheckCall(u, k, clock,
                              IF fault.k = k /\ fault.kind = "send" THEN 1 ELSE 0,
                              fault.k = k /\ fault.kind = "db",
                              fault.k = k /\ fault.eh))

Called(b) == {b.log[i].k : i \in 1..Len(b.log)}

\* The faults that change what a user's block does, given the undisturbed block
\* b0: those of a check it calls; when that check raises by itself only the
\* error reply is left to refuse.
FaultsThatMatter(b0) ==
    {f \in Faults :
        \/ f = NoFault
        \/ /\ f.k \in Called(b0)
           /\ (b0.err # "none" /\ \A j \in Called(b0) : j <= f.k) => (f.kind = "send" /\ f.eh)}

FaultsOf(u, clock) == FaultsThatMatter(UserBlock(u, 1, clock, NoFault))

\* The table after a user's block: the last document the block wrote.
Written(store, c, b) ==
    IF b.writes = <<>> THEN store ELSE [store EXCEPT ![c] = Some(b.writes[Len(b.writes)])]

\* What is kept of a block for the observers.
Observed(b) == [log |-> b.log, err |-> b.err, skipped |-> b.skipped]

\* The worker's `for user in [...all()]` over the documents loaded at the start
\* of the cycle (loaded: chat ids still to do, in table order; store: the table
\* so far).  faults gives each chat's fault.  An exception that leaves
\* error_handler ends the thread: the users after it are not reached.
RECURSIVE Cycle(_, _, _, _, _)
CycleAfter(loaded, snapshot, store, clock, faults, b) ==
    IF b.escaped
    THEN [db |-> Written(store, Head(loaded), b), out |-> b.out,
          blocks |-> (Head(loaded) :> Observed(b)), died |-> TRUE]
    ELSE [Cycle(Tail(loaded), snapshot, Written(store, Head(loaded), b), clock, faults) EXCEPT
             !.out = b.out \o @, !.blocks = (Head(loaded) :> Observed(b)) @@ @]

Cycle(loaded, snapshot, store, clock, faults) ==
    IF loaded = <<>> THEN [db |-> store, out |-> <<>>, blocks |-> <<>>, died |-> FALSE]
    ELSE CycleAfter(loaded, snapshot, store, clock, faults,
                    UserBlock(The(snapshot[Head(loaded)]), 1, clock, faults[Head(loaded)]))

\* db.table("users").upsert(user.dict(), Query().chat_id == chat_id)
Upserted(store, u) == [store EXCEPT ![u.chat_id] = Some(u)]

OrderAfter(ids, u) ==
    IF \E i \in 1..Len(ids) : ids[i] = u.chat_id THEN ids ELSE Append(ids, u.chat_id)

(***************************************************************************)
(* Observers                                                               *)
(***************************************************************************)
\* What a step was: the call (op), its chat, the user's state before it (from),
\* the target state, the exception error_handler caught ("none" for none),
\* whether the document was written, whether the exception left error_handler,
\* whether another call wrote the chat's document between this call's load and
\* its write (stale), whether the environment refused nothing (clean), and for
\* a worker cycle what is kept of each evaluated chat's block.
Idle ==
    [op |-> "idle", chat |-> 0, from |-> WAIT, state |-> WAIT, err |-> "none", wrote |-> FALSE,
     escaped |-> FALSE, stale |-> FALSE, clean |-> TRUE, blocks |-> <<>>]

\* The step has been observed: what it sent and what it was are forgotten
\* before the next call starts.
Return ==
    /\ last.op # "idle"
    /\ sent' = <<>>
    /\ last' = Idle
    /\ UNCHANGED <<now, db, order, inflight, wpc, wq, wstep, cause, notified, start_time>>

\* cause[c]: the time of the earliest reminder notification delivered to c
\* since a measurement was stored, the reminders were set anew, or a forgot
\* nudge was delivered and the document written after it (unanswered); the same
\* counting every delivered nudge, written after or not (unnudged).
NoCause == [unanswered |-> None, unnudged |-> None]

Earliest(o, clock) == IF IsSome(o) THEN o ELSE Some(clock)

CauseStep(g, e, clock) ==
    IF ~e.delivered THEN g
    ELSE IF e.k \in {1, 2}
         THEN [unanswered |-> Earliest(g.unanswered, clock), unnudged |-> Earliest(g.unnudged, clock)]
    ELSE [unanswered |-> IF e.wrote THEN None ELSE g.unanswered, unnudged |-> None]

RECURSIVE CauseAfter(_, _, _)
CauseAfter(g, log, clock) ==
    IF log = <<>> THEN g ELSE CauseAfter(CauseStep(g, Head(log), clock), Tail(log), clock)

\* notified[c][k]: the due instant of reminder k (1 morning, 2 evening) last
\* notified to c since a handler last wrote c's document, and whether the
\* document was written after that notification.
NoNotified == [k \in {1, 2} |-> [due |-> None, saved |-> TRUE]]

NotifiedStep(n, e) ==
    IF e.k \in {1, 2} /\ e.delivered
    THEN [n EXCEPT ![e.k] = [due |-> Some(e.due), saved |-> e.wrote]]
    ELSE n

RECURSIVE NotifiedAfter(_, _)
NotifiedAfter(n, log) ==
    IF log = <<>> THEN n ELSE NotifiedAfter(NotifiedStep(n, Head(log)), Tail(log))

\* A handled message that stores a measurement or new reminder times: the exit
\* callbacks of the two time prompts set a reminder, on_enter_RECORD appends.
Answers(before, state, r) ==
    r.wrote /\ (state = RECORD \/ before.state \in {WAIT_FOR_MORNING_TIME, WAIT_FOR_EVENING_TIME})

(***************************************************************************)
(* The clock                                                               *)
(***************************************************************************)
\* The instants at which the model reads the clock, numbered from 0: 00:59:30,
\* 01:00:30 and 02:00:00 UTC of one day (03:59:30, 04:00:30 and 05:00:00 in
\* Europe/Moscow), then 02:00:00 UTC of each following day.
Midnight == 20 * Day

Instant(i) ==
    Midnight + (IF i = 0 THEN 3570 ELSE IF i = 1 THEN 3630 ELSE (i - 2) * Day + 7200)

Instants == {Instant(i) : i \in 0..MaxClock}

StartTime == Instant(0)

\* datetime.datetime.now().replace(second=0, microsecond=0).timestamp(), the
\* clock reading `clock`.
MinuteStart(clock) == ToTimestamp(FromTimestamp(clock) - (FromTimestamp(clock) % Minute))

\* Time passes, to the next instant at which the model reads the clock, while
\* no call is under way.
AdvanceClock ==
    /\ last.op = "idle"
    /\ inflight = None
    /\ wpc # "run"
    /\ \E t \in Instants : t > now
    /\ now' = CHOOSE t \in Instants : t > now /\ \A t2 \in Instants : t2 > now => t <= t2
    /\ UNCHANGED <<db, order, inflight, wpc, wq, wstep, sent, last, cause, notified, start_time>>

(***************************************************************************)
(* Calls that do not overlap: a message handled from its filter to its     *)
(* upsert, a worker cycle from all() to time.sleep                         *)
(***************************************************************************)
\* The chats of the model, and the one that sends messages.
AllChats == {42, 43}

Chats == {42}

GeoAnswers == {None} \cup {Some(z) : z \in Zones}

\* The last handler: any message no other handler takes.
Think(c, text) ==
    /\ last.op = "idle"
    /\ inflight = None
    /\ Route(text, db[c]).do = "think"
    /\ sent' = <<[chat |-> c, parts |-> <<Msg("thinking", <<>>)>>]>>
    /\ last' = [Idle EXCEPT !.op = "think", !.chat = c]
    /\ UNCHANGED <<now, db, order, inflight, wpc, wq, wstep, cause, notified, start_time>>

\* The geocoder is asked only by the exit callbacks of the WAIT_FOR_TZ states.
GeoAsked(user) ==
    IF user.state \in {WAIT_FOR_TZ, WAIT_FOR_TZ_WHEN, WAIT_FOR_TZ_HISTORY} THEN GeoAnswers ELSE {None}

\* handle() starting from User.new(chat_id) whatever the search finds.
Loaded_always_new(stored, c) == User_new(c)

\* db.table("users").search(...): the stored user, or User.new(chat_id).
Loaded(stored, c) == IF IsSome(stored) THEN The(stored) ELSE User_new(c)

\* A message whose handler calls handle(message, state): the db search (User.new
\* for a chat with no document), the transit, the upsert.  F: the faults the
\* environment may choose from.
Message(c, text, F) ==
    /\ last.op = "idle"
    /\ inflight = None
    /\ wpc # "run"
    /\ Route(text, db[c]).do = "handle"
    /\ \E user \in {Loaded(db[c], c)}, state \in {Route(text, db[c]).state} :
       /\ ~(state = RECORD /\ Len(user.measurements) >= MaxMeasurements)
       /\ \E geo \in GeoAsked(user) :
          \E f \in CallFaultsOf(transit(Context(user, Some(text), geo, now, 0), state)) \cap F :
          \E r \in {HandleCall(user, state, text, geo, now, f)} :
             /\ db' = IF r.wrote THEN Upserted(db, r.u) ELSE db
             /\ order' = IF r.wrote THEN OrderAfter(order, r.u) ELSE order
             /\ sent' = r.out
             /\ last' = [Idle EXCEPT !.op = "handle", !.chat = c, !.from = user.state,
                                     !.state = state, !.err = r.err, !.wrote = r.wrote,
                                     !.escaped = r.escaped, !.clean = (f = NoCallFault)]
             /\ cause' = IF Answers(user, state, r) THEN [cause EXCEPT ![c] = NoCause] ELSE cause
             /\ notified' = IF r.wrote THEN [notified EXCEPT ![c] = NoNotified] ELSE notified
    /\ UNCHANGED <<now, inflight, wpc, wq, wstep, start_time>>

\* The faults the environment may choose for chat c's block of a cycle.
FaultsFor(c, F) ==
    IF IsSome(db[c]) THEN FaultsOf(The(db[c]), now) \cap F ELSE {NoFault}

\* One cycle of the worker's loop.  The environment disturbs the block of at
\* most one user in a cycle.
Tick(F) ==
    /\ last.op = "idle"
    /\ wpc = "sleep"
    /\ inflight = None
    /\ order # <<>>
    /\ \E f42 \in FaultsFor(42, F) :
       \E f43 \in (IF f42 = NoFault THEN FaultsFor(43, F) ELSE {NoFault}) :
       \E r \in {Cycle(order, db, db, now, (42 :> f42) @@ (43 :> f43))} :
          /\ db' = r.db
          /\ sent' = r.out
          /\ wpc' = IF r.died THEN "dead" ELSE "sleep"
          /\ last' = [Idle EXCEPT !.op = "tick", !.escaped = r.died, !.blocks = r.blocks,
                                  !.clean = (f42 = NoFault /\ f43 = NoFault)]
          /\ cause' = [c \in AllChats |->
                          IF c \in DOMAIN r.blocks THEN CauseAfter(cause[c], r.blocks[c].log, now)
                          ELSE cause[c]]
          /\ notified' = [c \in AllChats |->
                             IF c \in DOMAIN r.blocks THEN NotifiedAfter(notified[c], r.blocks[c].log)
                             ELSE notified[c]]
    /\ UNCHANGED <<now, order, inflight, wq, wstep, start_time>>

(***************************************************************************)
(* The system: messages of one chat and worker cycles, one call at a time, *)
(* with an environment that may refuse a send or an upsert                 *)
(***************************************************************************)
Init ==
    /\ now = StartTime
    /\ db = [c \in AllChats |-> None]
    /\ order = <<>>
    /\ inflight = None
    /\ wpc = "sleep"
    /\ wq = <<>>
    /\ wstep = 1
    /\ sent = <<>>
    /\ last = Idle
    /\ cause = [c \in AllChats |-> NoCause]
    /\ notified = [c \in AllChats |-> NoNotified]
    /\ start_time = MinuteStart(now)

Next ==
    \/ Return
    \/ AdvanceClock
    \/ \E c \in Chats, text \in Texts : Think(c, text)
    \/ \E c \in Chats, text \in Texts : Message(c, text, CallFaults)
    \/ Tick(Faults)

Spec == Init /\ [][Next]_vars

(***************************************************************************)
(* Users that a conversation without faults leaves in the table            *)
(***************************************************************************)
\* The document after the message `text` is handled at time `clock` for the
\* chat's stored document (Optional), the geocoder finding the city.
Told(stored, c, text, clock) ==
    Some(HandleCall(Loaded(stored, c), Route(text, stored).state, text,
                    Some("Europe/Moscow"), clock, NoCallFault).u)

RECURSIVE Conversation(_, _, _, _)
Conversation(stored, c, texts, clock) ==
    IF texts = <<>> THEN stored
    ELSE Conversation(Told(stored, c, Head(texts), clock), c, Tail(texts), clock)

\* /start, /where, Moscow
ZonedUser(c) == The(Conversation(None, c, <<T_start, T_where, T_city>>, StartTime))

\* /start, /when, Moscow, 04:00, 05:00 at the first instant: reminders at 04:00
\* and 05:00 Moscow time, both next due later that day, state WAIT.
ConfiguredUser(c) ==
    The(Conversation(None, c, <<T_start, T_when, T_city, T_0400, T_0500>>, StartTime))

\* The same conversation a day before the first instant, no worker cycle since
\* (the process was down): both reminders are next due the day before.
OverdueUser(c) ==
    The(Conversation(None, c, <<T_start, T_when, T_city, T_0400, T_0500>>, StartTime - Day))

(***************************************************************************)
(* The dispatcher alone: transit called with any target on an aggregate in *)
(* any state of the machine                                                *)
(***************************************************************************)
MaxDispatcherMeasurements == 2    \* transit(RECORD) is not called on a longer history

\* A user configured the day before who recorded 120/80 then, and to whom the
\* first cycle of the worker has sent the morning reminder at the first
\* instant: one measurement, the tracker set, the morning reminder next due
\* later today, the evening reminder due since yesterday.
RemindedUser(c) ==
    CheckCall(The(Told(Some(OverdueUser(c)), c, T_120_80, StartTime - Day)),
              1, StartTime, 0, FALSE, FALSE).u

Aggregates ==
    {[u EXCEPT !.state = s] :
        u \in {User_new(42), ZonedUser(42), ConfiguredUser(42), OverdueUser(42), RemindedUser(42)},
        s \in State}

DispatcherTexts ==
    {None, Some(T_stop), Some(T_0400), Some(T_120_80), Some(T_0_1000), Some(T_city)}

\* UserDispatcher(user, message, bot).transit(target)
Transit(c, target, text) ==
    /\ last.op = "idle"
    /\ IsSome(db[c])
    /\ ~(target = RECORD /\ Len(The(db[c]).measurements) >= MaxDispatcherMeasurements)
    /\ \E geo \in GeoAsked(The(db[c])) :
       \E x \in {transit(Context(The(db[c]), text, geo, now, 0), target)} :
          /\ db' = IF x.err = "none" THEN Upserted(db, x.u) ELSE db
          /\ sent' = x.out
          /\ last' = [Idle EXCEPT !.op = "transit", !.chat = c, !.from = The(db[c]).state,
                                  !.state = target, !.err = x.err, !.wrote = (x.err = "none")]
    /\ UNCHANGED <<now, order, inflight, wpc, wq, wstep, cause, notified, start_time>>

InitDispatcher ==
    /\ now = StartTime
    /\ \E a \in Aggregates : db = [c \in AllChats |-> IF c = 42 THEN Some(a) ELSE None]
    /\ order = <<42>>
    /\ inflight = None
    /\ wpc = "sleep"
    /\ wq = <<>>
    /\ wstep = 1
    /\ sent = <<>>
    /\ last = Idle
    /\ cause = [c \in AllChats |-> NoCause]
    /\ notified = [c \in AllChats |-> NoNotified]
    /\ start_time = MinuteStart(now)

NextDispatcher ==
    \/ Return
    \/ \E target \in State \ {INITIAL}, text \in DispatcherTexts : Transit(42, target, text)

SpecDispatcher == InitDispatcher /\ [][NextDispatcher]_vars

(***************************************************************************)
(* The worker alone, started on a table of two users configured the day    *)
(* before, to whom nobody writes                                           *)
(***************************************************************************)
InitScheduler ==
    /\ now = StartTime
    /\ db = [c \in AllChats |-> Some(OverdueUser(c))]
    /\ order = <<42, 43>>
    /\ inflight = None
    /\ wpc = "sleep"
    /\ wq = <<>>
    /\ wstep = 1
    /\ sent = <<>>
    /\ last = Idle
    /\ cause = [c \in AllChats |-> NoCause]
    /\ notified = [c \in AllChats |-> NoNotified]
    /\ start_time = MinuteStart(now)

NextScheduler ==
    \/ Return
    \/ AdvanceClock
    \/ Tick(Faults)

SpecScheduler == InitScheduler /\ [][NextScheduler]_vars

(***************************************************************************)
(* Calls that overlap: handle() between its db search and its upsert, the  *)
(* worker between all() and the upsert of each check                       *)
(***************************************************************************)
MaxRaceMeasurements == 2    \* a history longer than this is not extended in a race

RaceTexts == {T_120_80, T_stop}

\* handle(message, state) up to the db search: the user is loaded.
Receive(c, text) ==
    /\ last.op = "idle"
    /\ inflight = None
    /\ Route(text, db[c]).do = "handle"
    /\ ~(Route(text, db[c]).state = RECORD
         /\ Len(Loaded(db[c], c).measurements) >= MaxRaceMeasurements)
    /\ inflight' = Some([chat |-> c, text |-> text, state |-> Route(text, db[c]).state,
                         user |-> Loaded(db[c], c), stale |-> FALSE])
    /\ UNCHANGED <<now, db, order, wpc, wq, wstep, sent, last, cause, notified, start_time>>

\* The worker's copies of chat c's document are stale once another call writes it.
Outdated(q, c, wrote) ==
    [i \in 1..Len(q) |-> IF wrote /\ q[i].u.chat_id = c THEN [q[i] EXCEPT !.stale = TRUE] ELSE q[i]]

\* handle(message, state) from the transit to the upsert.
Handle ==
    /\ last.op = "idle"
    /\ IsSome(inflight)
    /\ \E h \in {The(inflight)} :
       \E r \in {HandleCall(h.user, h.state, h.text, None, now, NoCallFault)} :
          /\ db' = IF r.wrote THEN Upserted(db, r.u) ELSE db
          /\ order' = IF r.wrote THEN OrderAfter(order, r.u) ELSE order
          /\ sent' = r.out
          /\ last' = [Idle EXCEPT !.op = "handle", !.chat = h.chat, !.from = h.user.state,
                                  !.state = h.state, !.err = r.err, !.wrote = r.wrote,
                                  !.stale = h.stale]
          /\ wq' = Outdated(wq, h.chat, r.wrote)
    /\ inflight' = None
    /\ UNCHANGED <<now, wpc, wstep, cause, notified, start_time>>

\* [m.User(**x) for x in db.table("users").all()]: the cycle loads every document.
TickStart ==
    /\ last.op = "idle"
    /\ wpc = "sleep"
    /\ order # <<>>
    /\ wpc' = "run"
    /\ wq' = [i \in 1..Len(order) |-> [u |-> The(db[order[i]]), stale |-> FALSE]]
    /\ wstep' = 1
    /\ UNCHANGED <<now, db, order, inflight, sent, last, cause, notified, start_time>>

\* The first check from k on whose condition holds for u now, 4 when none does.
RECURSIVE NextDue(_, _, _)
NextDue(u, k, clock) ==
    IF k > 3 THEN 4 ELSE IF CheckDue(u, k, clock) THEN k ELSE NextDue(u, k + 1, clock)

\* The handler's copy of chat c's document is stale once the worker writes it.
Overtaken(h, c, wrote) ==
    IF IsSome(h) /\ wrote /\ The(h).chat = c THEN Some([The(h) EXCEPT !.stale = TRUE]) ELSE h

\* The next `if` of the loop body whose condition holds, for the user in
\* progress: the transit and the upsert.  A raise ends the user's block.
WorkerCheck ==
    /\ last.op = "idle"
    /\ wpc = "run"
    /\ wq # <<>>
    /\ NextDue(Head(wq).u, wstep, now) <= 3
    /\ \E h \in {Head(wq)}, k \in {NextDue(Head(wq).u, wstep, now)} :
       \E r \in {CheckCall(h.u, k, now, 0, FALSE, FALSE)} :
          /\ db' = IF r.wrote THEN Upserted(db, r.u) ELSE db
          /\ sent' = r.out
          /\ last' = [Idle EXCEPT !.op = "check", !.chat = h.u.chat_id, !.from = h.u.state,
                                  !.state = NotifyState(k), !.err = r.err, !.wrote = r.wrote,
                                  !.stale = h.stale]
          /\ wq' = IF r.err = "none" THEN <<[h EXCEPT !.u = r.u]>> \o Tail(wq) ELSE wq
          /\ wstep' = IF r.err = "none" THEN k + 1 ELSE 4
          /\ inflight' = Overtaken(inflight, h.u.chat_id, r.wrote)
    /\ UNCHANGED <<now, order, wpc, cause, notified, start_time>>

\* The user in progress has no check left: the next loaded user, or time.sleep.
WorkerNext ==
    /\ last.op = "idle"
    /\ wpc = "run"
    /\ wq # <<>>
    /\ NextDue(Head(wq).u, wstep, now) > 3
    /\ wq' = Tail(wq)
    /\ wstep' = 1
    /\ wpc' = IF Tail(wq) = <<>> THEN "sleep" ELSE "run"
    /\ UNCHANGED <<now, db, order, inflight, sent, last, cause, notified, start_time>>

InitRace ==
    /\ now = StartTime
    /\ db = [c \in AllChats |-> IF c = 42 THEN Some(ConfiguredUser(c)) ELSE None]
    /\ order = <<42>>
    /\ inflight = None
    /\ wpc = "sleep"
    /\ wq = <<>>
    /\ wstep = 1
    /\ sent = <<>>
    /\ last = Idle
    /\ cause = [c \in AllChats |-> NoCause]
    /\ notified = [c \in AllChats |-> NoNotified]
    /\ start_time = MinuteStart(now)

NextRace ==
    \/ Return
    \/ AdvanceClock
    \/ \E text \in RaceTexts : Receive(42, text)
    \/ Handle
    \/ TickStart
    \/ WorkerCheck
    \/ WorkerNext

SpecRace == InitRace /\ [][NextRace]_vars

(***************************************************************************)
(* A configured user whose messages are handled between the worker's       *)
(* cycles, an environment that refuses nothing, and a worker thread that   *)
(* keeps running: it wakes up every minute and finishes each cycle         *)
(***************************************************************************)
FairTexts == {T_stop, T_status, T_120_80}

NextFair ==
    \/ Return
    \/ AdvanceClock
    \/ \E text \in FairTexts : Think(42, text)
    \/ \E text \in FairTexts : Message(42, text, {NoCallFault})
    \/ TickStart
    \/ WorkerCheck
    \/ WorkerNext

\* A step of WorkerCheck, told by its guard and by wstep moving on; it is
\* enabled exactly when WorkerCheck is.  The worker is a thread of its own
\* (bot/__init__.py:164): a message being handled never stops it for good, so
\* its steps are strongly fair.
WorkerCheckStep ==
    /\ last.op = "idle"
    /\ wpc = "run"
    /\ wq # <<>>
    /\ NextDue(Head(wq).u, wstep, now) <= 3
    /\ wstep' \in (wstep + 1)..4

SpecFair ==
    /\ InitRace
    /\ [][NextFair]_vars
    /\ WF_vars(Return)
    /\ SF_vars(TickStart)
    /\ SF_wstep(WorkerCheckStep)
    /\ SF_vars(WorkerNext)

(***************************************************************************)
(* The classes of models/__init__.py alone: one user's morning reminder    *)
(* and forgot tracker, with Reminder.new, update_next_time and             *)
(* ReminderForgot.update called at any of the clock readings below         *)
(***************************************************************************)
\* Clock readings around 04:00 and 05:00 Moscow time of day 0 (the minute's
\* start, its middle and its last second), and the same hour one, two and
\* three days later.
ModelClocks ==
    {Midnight + t : t \in {3570, 3600, 3630, 3659, 7140, 7170, 7199, 7200, 7230, 7259,
                           Day + 3570, Day + 3600, 2 * Day + 3630, 3 * Day + 3600}}

\* Reminder.new's data: times of day inside the bounds of the two range checks,
\* on them and outside them, fields of one, two and three characters, a field
\* with a sign, a text with no colon and one with two.
TimeTexts ==
    {T_0400, T_0500, T_2400,
     <<"0", "0", ":", "0", "0">>, <<"2", "3", ":", "5", "9">>, <<"0", "0", ":", "6", "0">>,
     <<"2", "5", ":", "0", "0">>, <<"0", "4", ":", "6", "1">>, <<"4", ":", "1">>,
     <<"0", "0", "4", ":", "0", "0">>, <<"0", "4", ":", "0", "0", "0">>,
     <<"+", "4", ":", "0", "0">>, <<"-", "1", ":", "0", "0">>, <<"0", "4", ":", "x", "0">>,
     <<"0", "4", "0", "0">>, <<"0", "4", ":", "0", "0", ":", "0", "0">>, <<"0", "4", ":">>}

\* The zones a user of the model lives in: the host's, and one on UTC all year.
ModelZones == {"Europe/Moscow", "Atlantic/Reykjavik"}

\* Time passes to a later clock reading.
ClockStep ==
    /\ last.op = "idle"
    /\ \E t \in ModelClocks : t > now /\ now' = t
    /\ UNCHANGED <<db, order, inflight, wpc, wq, wstep, sent, last, cause, notified, start_time>>

\* user.reminder_morning = Reminder.new(data, user.tz): the assignment happens
\* when new returns.
Create(c, data) ==
    /\ last.op = "idle"
    /\ \E r \in {Reminder_new(data, The(db[c]).tz, now)} :
          /\ db' = IF IsSome(r) THEN [db EXCEPT ![c] = Some([The(@) EXCEPT !.reminder_morning = r])]
                   ELSE db
          /\ last' = [Idle EXCEPT !.op = "create", !.chat = c,
                                  !.err = IF IsSome(r) THEN "none" ELSE "Exception"]
    /\ UNCHANGED <<now, order, inflight, wpc, wq, wstep, sent, cause, notified, start_time>>

\* user.reminder_morning.update_next_time()
Advance(c) ==
    /\ last.op = "idle"
    /\ IsSome(The(db[c]).reminder_morning)
    /\ \E r \in {Reminder_update_next_time(The(The(db[c]).reminder_morning), now)} :
          /\ db' = IF IsSome(r) THEN [db EXCEPT ![c] = Some([The(@) EXCEPT !.reminder_morning = r])]
                   ELSE db
          /\ last' = [Idle EXCEPT !.op = "advance", !.chat = c,
                                  !.err = IF IsSome(r) THEN "none" ELSE "Exception"]
    /\ UNCHANGED <<now, order, inflight, wpc, wq, wstep, sent, cause, notified, start_time>>

\* user.reminder_forgot.update()
Update(c) ==
    /\ last.op = "idle"
    /\ db' = [db EXCEPT ![c] = Some([The(@) EXCEPT
                  !.reminder_forgot = ReminderForgot_update(@, now)])]
    /\ last' = [Idle EXCEPT !.op = "update", !.chat = c]
    /\ UNCHANGED <<now, order, inflight, wpc, wq, wstep, sent, cause, notified, start_time>>

\* user.reminder_forgot.reset()
Reset(c) ==
    /\ last.op = "idle"
    /\ IsSome(The(db[c]).reminder_forgot.latest_sent_ts)
    /\ db' = [db EXCEPT ![c] = Some([The(@) EXCEPT
                  !.reminder_forgot = ReminderForgot_reset(@)])]
    /\ last' = [Idle EXCEPT !.op = "reset", !.chat = c]
    /\ UNCHANGED <<now, order, inflight, wpc, wq, wstep, sent, cause, notified, start_time>>

InitModels ==
    /\ now \in ModelClocks
    /\ \E z \in ModelZones :
          db = [c \in AllChats |->
                   IF c = 42 THEN Some([ZonedUser(42) EXCEPT !.tz = Some([name |-> z])]) ELSE None]
    /\ order = <<42>>
    /\ inflight = None
    /\ wpc = "sleep"
    /\ wq = <<>>
    /\ wstep = 1
    /\ sent = <<>>
    /\ last = Idle
    /\ cause = [c \in AllChats |-> NoCause]
    /\ notified = [c \in AllChats |-> NoNotified]
    /\ start_time = MinuteStart(now)

NextModels ==
    \/ Return
    \/ ClockStep
    \/ \E data \in TimeTexts : Create(42, data)
    \/ Advance(42)
    \/ Update(42)
    \/ Reset(42)

SpecModels == InitModels /\ [][NextModels]_vars

(***************************************************************************)
(* The worker's loop against the clock: a pass over the users that takes   *)
(* some whole number of seconds, then time.sleep.  The clock is not        *)
(* adjusted and time.sleep returns on time.                                *)
(***************************************************************************)
MaxPass == 125          \* a pass over the users takes at most this many seconds
MaxSleepClock == 360    \* no pass starts later than this many seconds after start_time

\* The sleep of a loop that pauses a flat minute after each pass.
SleepSeconds_flat(clock, start) == Minute

\* 60.0 - ((time.time() - start_time) % 60.0)
SleepSeconds(clock, start) == Minute - ((clock - start) % Minute)

\* `for user in [...]` from all() to the end of the last user's block, as far
\* as the clock goes: d seconds pass.
Pass(d) ==
    /\ wpc = "run"
    /\ now - start_time <= MaxSleepClock
    /\ now' = now + d
    /\ wpc' = "sleep"
    /\ UNCHANGED <<db, order, inflight, wq, wstep, sent, last, cause, notified, start_time>>

\* time.sleep(60.0 - ((time.time() - start_time) % 60.0)): the thread is back
\* at the top of the loop when the sleep is over.
Sleep ==
    /\ wpc = "sleep"
    /\ now' = now + SleepSeconds(now, start_time)
    /\ wpc' = "run"
    /\ UNCHANGED <<db, order, inflight, wq, wstep, sent, last, cause, notified, start_time>>

\* The thread starts at any second of the minute from 00:59:00 UTC on and is
\* at the top of the loop.
InitSleep ==
    /\ now \in {StartTime - 30 + s : s \in 0..59}
    /\ db = [c \in AllChats |-> None]
    /\ order = <<>>
    /\ inflight = None
    /\ wpc = "run"
    /\ wq = <<>>
    /\ wstep = 1
    /\ sent = <<>>
    /\ last = Idle
    /\ cause = [c \in AllChats |-> NoCause]
    /\ notified = [c \in AllChats |-> NoNotified]
    /\ start_time = MinuteStart(now)

NextSleep ==
    \/ \E d \in 0..MaxPass : Pass(d)
    \/ Sleep

SpecSleep == InitSleep /\ [][NextSleep]_vars

(***************************************************************************)
(* Properties                                                              *)
(***************************************************************************)
\* The sources the transition table is stated to allow for a target.
StatedSources(target) ==
    CASE target = START -> {INITIAL}
      [] target \in {WAIT, STOP} -> State
      [] target \in {WAIT_FOR_TZ, WAIT_FOR_TZ_WHEN, WAIT_FOR_TZ_HISTORY, STATUS} -> {STOP, WAIT}
      [] target = WAIT_FOR_MORNING_TIME -> {STOP, WAIT, WAIT_FOR_TZ_WHEN}
      [] target = WAIT_FOR_EVENING_TIME -> {WAIT_FOR_MORNING_TIME}
      [] target = HISTORY -> {STOP, WAIT, WAIT_FOR_TZ_HISTORY}
      [] target \in {RECORD, NOTIFY_MORNING, NOTIFY_EVENING, NOTIFY_FORGOT} -> {WAIT}

\* C1: transit(target) on an aggregate in state `from` is refused with
\* MachineError (IllegalTransition) exactly when `from` is not among the stated
\* sources of `target`; for every other pair the guard lets the transit through.
C1_GuardIsTheTable ==
    last.op = "transit" =>
        ((last.err = "MachineError") <=> (last.from \notin StatedSources(last.state)))

\* transit(aggregate in STOP, target=RECORD) has been refused.
C1_Witness_StopToRecordRefused ==
    last.op = "transit" /\ last.from = STOP /\ last.state = RECORD /\ last.err = "MachineError"

\* The reply of error_handler to a MachineError.
WrongState(c) == [chat |-> c, parts |-> <<Msg("wrong_state", <<>>)>>]

\* The chats whose call ended in a MachineError in the step just taken.
Refused(l) ==
    IF l.op = "handle" THEN (IF l.err = "MachineError" THEN {l.chat} ELSE {})
    ELSE IF l.op = "tick" THEN {c \in DOMAIN l.blocks : l.blocks[c].err = "MachineError"}
    ELSE {}

\* C2: a call (a handled message or a user's block of a worker cycle) whose
\* transit is refused with MachineError leaves the chat's stored document as it
\* was, and what it sends to the chat is the wrong-state message and nothing
\* else (nothing at all when the transport refuses that message too).
C2_RefusedTransitChangesNothing ==
    [][\A c \in Refused(last') :
          /\ db'[c] = db[c]
          /\ \A i \in 1..Len(sent') : sent'[i].chat = c => sent'[i] = WrongState(c)
          /\ Cardinality({i \in 1..Len(sent') : sent'[i].chat = c}) <= 1]_vars

\* /history from a user waiting for the morning time has been refused: the
\* wrong-state message is the only thing sent.
C2_Witness_Refused ==
    /\ last.op = "handle"
    /\ last.err = "MachineError"
    /\ last.from = WAIT_FOR_MORNING_TIME
    /\ sent = <<WrongState(last.chat)>>

\* C3: a handled /stop, the environment refusing nothing, completes whatever the
\* state of the user was: the stored user is in STOP with both reminders cleared.
C3_StopFromAnyState ==
    (last.op = "handle" /\ last.state = STOP /\ last.clean) =>
        /\ last.err = "none"
        /\ IsSome(db[last.chat])
        /\ The(db[last.chat]).state = STOP
        /\ The(db[last.chat]).reminder_morning = None
        /\ The(db[last.chat]).reminder_evening = None

\* C4: in a worker cycle the three checks of a user are independent: when one
\* of them raises, no later check of that user whose condition holds is left
\* out of the cycle.
C4_ChecksIndependent ==
    last.op = "tick" => \A c \in DOMAIN last.blocks : last.blocks[c].skipped = {}

\* C5: a failure during one user's block never aborts the cycle or the worker:
\* after a cycle every stored user has been evaluated and the worker sleeps
\* until the next cycle.
C5_FailureNeverAbortsTick ==
    last.op = "tick" =>
        /\ wpc = "sleep"
        /\ \A c \in AllChats : IsSome(db[c]) => c \in DOMAIN last.blocks

\* The due instants of reminder k notified to chat c in the step just taken.
NotifiedNow(l, c, k) ==
    IF l.op = "tick" /\ c \in DOMAIN l.blocks
    THEN {l.blocks[c].log[i].due :
             i \in {j \in 1..Len(l.blocks[c].log) :
                       l.blocks[c].log[j].k = k /\ l.blocks[c].log[j].delivered}}
    ELSE {}

\* The stored reminder k of chat c.
StoredReminder(store, c, k) ==
    IF k = 1 THEN The(store[c]).reminder_morning ELSE The(store[c]).reminder_evening

\* No due instant is passed over: the stored next time of a reminder moves only
\* by a day, in a cycle that notified the instant it leaves.
NoneSkipped(c, k) ==
    StoredReminder(db', c, k) # StoredReminder(db, c, k) =>
        /\ The(StoredReminder(db', c, k)).next_time_ts = The(StoredReminder(db, c, k)).next_time_ts + Day
        /\ The(StoredReminder(db, c, k)).next_time_ts \in NotifiedNow(last', c, k)

\* C9 as stated: for a user in WAIT with configured reminders whose document only
\* the worker writes, no due instant of a reminder is passed over and none is
\* notified twice, however late the cycles are.
C9_OncePerDueInstant ==
    [][\A c \in AllChats, k \in {1, 2} :
          /\ NoneSkipped(c, k)
          /\ \A t \in NotifiedNow(last', c, k) : notified[c][k].due # Some(t)]_vars

\* C9 amended: no due instant is passed over, and one is notified again only
\* when the write of the document after its last notification was refused.
C9_OncePerDueInstantStored ==
    [][\A c \in AllChats, k \in {1, 2} :
          /\ NoneSkipped(c, k)
          /\ \A t \in NotifiedNow(last', c, k) :
                notified[c][k].due = Some(t) => ~notified[c][k].saved]_vars

\* A late cycle has notified the second of two due instants of the morning
\* reminder that were both in the past, the first one having been notified and
\* stored before.
C9_Witness_SecondDueInstant ==
    /\ last.op = "tick"
    /\ last.clean
    /\ 42 \in DOMAIN last.blocks
    /\ \E i \in 1..Len(last.blocks[42].log) :
          /\ last.blocks[42].log[i].k = 1
          /\ last.blocks[42].log[i].delivered
          /\ last.blocks[42].log[i].wrote
          /\ last.blocks[42].log[i].due = The(OverdueUser(42).reminder_morning).next_time_ts + Day
    /\ The(db[42]).reminder_morning # None
    /\ The(The(db[42]).reminder_morning).next_time_ts
           = The(OverdueUser(42).reminder_morning).next_time_ts + 2 * Day

\* The stored measurement history of a chat.
History(store, c) == IF IsSome(store[c]) THEN The(store[c]).measurements ELSE <<>>

\* Every element of a is in b, in the same order.
RECURSIVE Kept(_, _)
Kept(a, b) ==
    IF a = <<>> THEN TRUE
    ELSE IF b = <<>> THEN FALSE
    ELSE IF Head(a) = Head(b) THEN Kept(Tail(a), Tail(b))
    ELSE Kept(a, Tail(b))

\* C6 as stated: in every interleaving of handled messages and worker checks of
\* a chat, each write keeps every stored measurement, in the same order.
C6_HistoryAppendOnly ==
    [][\A c \in AllChats : Kept(History(db, c), History(db', c))]_vars

\* C6 amended: a write keeps every stored measurement, in the same order, when
\* no other call wrote the chat's document between the writing call's load and
\* its write.
C6_HistoryAppendOnlyUnlessOverlap ==
    [][~last'.stale => \A c \in AllChats : Kept(History(db, c), History(db', c))]_vars

\* A handled message, not overlapped by a write, has stored a second
\* measurement after the first.
C6_Witness_SecondMeasurement ==
    /\ last.op = "handle"
    /\ last.state = RECORD
    /\ last.wrote
    /\ ~last.stale
    /\ Len(History(db, last.chat)) = 2

\* The forgot nudge has been delivered to chat c in the step just taken.
Nudged(l, c) ==
    \/ /\ l.op = "tick"
       /\ c \in DOMAIN l.blocks
       /\ \E i \in 1..Len(l.blocks[c].log) :
             l.blocks[c].log[i].k = 3 /\ l.blocks[c].log[i].delivered
    \/ l.op = "check" /\ l.chat = c /\ l.state = NOTIFY_FORGOT /\ l.err = "none"

\* A reminder delivered at time t (Optional) is at least FORGOT_DELTA old,
\* counted from t with its seconds dropped.
OldEnough(t, clock) ==
    IsSome(t) /\ Normalized(FromTimestamp(The(t))) + FORGOT_DELTA <= FromTimestamp(clock)

\* C7 as stated: calls do not overlap; a forgot nudge is sent only when a
\* reminder was delivered at least 60 minutes before (from its time truncated to
\* the minute) and since then no measurement was stored, no other nudge was
\* sent and the reminders were not set anew.
C7_NudgeHasCause ==
    [][\A c \in AllChats : Nudged(last', c) => OldEnough(cause[c].unnudged, now)]_vars

\* C7 amended: the same, except that a nudge after which the document could not
\* be written does not count as sent: the next cycle sends it again.
C7_NudgeHasCauseUnlessUnwritten ==
    [][\A c \in AllChats : Nudged(last', c) => OldEnough(cause[c].unanswered, now)]_vars

\* A nudge has been delivered and stored less than 60 minutes after the
\* reminder it follows (59 minutes 30 seconds, the reminder's seconds dropped).
C7_Witness_NudgeOnTheMinute ==
    /\ last.op = "tick"
    /\ 42 \in DOMAIN last.blocks
    /\ \E i \in 1..Len(last.blocks[42].log) :
          /\ last.blocks[42].log[i].k = 3
          /\ last.blocks[42].log[i].delivered
          /\ last.blocks[42].log[i].wrote
          /\ now - last.blocks[42].log[i].due < FORGOT_DELTA

\* The forgot nudge of chat c is due: a reminder was delivered and stored at
\* least 60 minutes ago and the tracker was not reset since.
NudgeDue(c) ==
    IsSome(db[c]) /\ ReminderForgot_is_notify_needed(The(db[c]).reminder_forgot, now)

\* C8: with a worker that keeps running and an environment that refuses
\* nothing, a forgot nudge that is due does not stay due for ever, whatever the
\* user sends: it is delivered, or the tracker is reset or restarted (by a
\* stored measurement or a later reminder).
C8_NudgeEventuallyDelivered ==
    \A c \in Chats : NudgeDue(c) ~> (Nudged(last, c) \/ ~NudgeDue(c))

\* The stored next time of reminder k of chat c changes as update_next_time
\* lets it: not at all, or by a day from a time that has come.
NextTimeMonotonic(c, k) ==
    (IsSome(db[c]) /\ IsSome(db'[c]) /\ IsSome(StoredReminder(db, c, k))
        /\ IsSome(StoredReminder(db', c, k))) =>
        \/ The(StoredReminder(db', c, k)).next_time_ts = The(StoredReminder(db, c, k)).next_time_ts
        \/ /\ The(StoredReminder(db', c, k)).next_time_ts
                  = The(StoredReminder(db, c, k)).next_time_ts + Day
           /\ The(StoredReminder(db, c, k)).next_time_ts <= now

\* C10 as stated: while a reminder is neither set anew nor stopped, every write
\* of the document, in any interleaving of handled messages and worker checks,
\* leaves its stored next time unchanged or a day later, the latter only from a
\* time that has come.
C10_NextTimeMonotonic ==
    [][\A c \in AllChats, k \in {1, 2} : NextTimeMonotonic(c, k)]_vars

\* C10 amended: the same for a write by a call during which no other call
\* wrote the chat's document between its load and its write.
C10_NextTimeMonotonicUnlessOverlap ==
    [][~last'.stale => \A c \in AllChats, k \in {1, 2} : NextTimeMonotonic(c, k)]_vars

\* A worker check, not overlapped by a write, has notified the morning reminder
\* and stored its next time a day later.
C10_Witness_AdvancedByADay ==
    /\ last.op = "check"
    /\ last.state = NOTIFY_MORNING
    /\ last.wrote
    /\ ~last.stale
    /\ The(The(db[42]).reminder_morning).next_time_ts
           = The(ConfiguredUser(42).reminder_morning).next_time_ts + Day

\* The reply of error_handler to an exception other than MachineError.
GeneralError(c) == [chat |-> c, parts |-> <<Msg("general_error", <<>>)>>]

\* C11: a handled message whose transit raises on what the user sent (a time
\* that Reminder.new refuses, a reading that Measurement.from_string refuses,
\* a city the geocoder does not find) leaves the stored document of every chat
\* exactly as it was, and, the environment refusing nothing, what is sent is the
\* general error message, once, and nothing else.
C11_FailedInputChangesNothing ==
    [][(last'.op = "handle" /\ last'.err = "Exception") =>
          /\ db' = db
          /\ last'.clean => sent' = <<GeneralError(last'.chat)>>]_vars

\* 24:00 sent by a user asked for the morning time has been refused: the
\* document is still in WAIT_FOR_MORNING_TIME without a morning reminder.
C11_Witness_TimeRefused ==
    /\ last.op = "handle"
    /\ last.from = WAIT_FOR_MORNING_TIME
    /\ last.state = WAIT_FOR_EVENING_TIME
    /\ last.err = "Exception"
    /\ last.clean
    /\ The(db[last.chat]).state = WAIT_FOR_MORNING_TIME
    /\ The(db[last.chat]).reminder_morning = None
    /\ sent = <<GeneralError(last.chat)>>

\* C12 as stated: update_next_time on a reminder whose next time has come puts
\* the next time exactly a day later, and right after it, at the same clock
\* reading, the reminder is not due, however long ago its next time was.
C12_AdvanceByADayThenNotDue ==
    [][(last'.op = "advance" /\ last'.err = "none") =>
          /\ The(StoredReminder(db', 42, 1)).next_time_ts
                 = The(StoredReminder(db, 42, 1)).next_time_ts + Day
          /\ ~(The(StoredReminder(db', 42, 1)).next_time_ts <= now)]_vars

\* C12 amended: update_next_time on a reminder whose next time has come puts the
\* next time exactly a day later; right after it the reminder is not due exactly
\* when its next time was less than 24 hours ago.
C12_AdvanceByADay ==
    [][(last'.op = "advance" /\ last'.err = "none") =>
          /\ The(StoredReminder(db, 42, 1)).next_time_ts <= now
          /\ The(StoredReminder(db', 42, 1)).next_time_ts
                 = The(StoredReminder(db, 42, 1)).next_time_ts + Day
          /\ ~(The(StoredReminder(db', 42, 1)).next_time_ts <= now)
                 <=> (now - The(StoredReminder(db, 42, 1)).next_time_ts < Day)]_vars

\* update_next_time has returned on a reminder that was due since two days or
\* more: its next time is still in the past.
C12_Witness_StillDueAfterAdvance ==
    /\ last.op = "advance"
    /\ last.err = "none"
    /\ The(StoredReminder(db, 42, 1)).next_time_ts + Day <= now

\* A field of a time of day written with one or two digits.
DigitField(f) == Len(f) \in {1, 2} /\ \A i \in 1..Len(f) : f[i] \in Digits

\* The times of day Reminder.create is stated to take: HH:MM, each field of one
\* or two digits, the hour in 0..24 and the minute in 0..60.
StatedTime(data) ==
    /\ Len(Split(data, ":")) = 2
    /\ DigitField(Split(data, ":")[1]) /\ DigitsValue(Split(data, ":")[1], 0) <= 24
    /\ DigitField(Split(data, ":")[2]) /\ DigitsValue(Split(data, ":")[2], 0) <= 60

\* A field that is one or two digits, or a sign and a digit.
SignedField(f) ==
    \/ DigitField(f)
    \/ Len(f) = 2 /\ f[1] \in {"+", "-"} /\ f[2] \in Digits

\* The value of such a field.
SignedValue(f) ==
    IF f[1] = "-" THEN 0 - DigitValue(f[2])
    ELSE IF f[1] = "+" THEN DigitValue(f[2])
    ELSE DigitsValue(f, 0)

\* The times of day Reminder.new takes: two fields, each of one or two digits or
\* of a sign and a digit, the hour in 0..23 and the minute in 0..59.
TakenTime(data) ==
    /\ Len(Split(data, ":")) = 2
    /\ SignedField(Split(data, ":")[1]) /\ SignedValue(Split(data, ":")[1]) \in 0..23
    /\ SignedField(Split(data, ":")[2]) /\ SignedValue(Split(data, ":")[2]) \in 0..59

\* The new reminder's next time is not before the start of the current minute
\* and at most 24 hours after now.
NextTimeInRange ==
    /\ The(StoredReminder(db', 42, 1)).next_time_ts >= now - (now % Minute)
    /\ The(StoredReminder(db', 42, 1)).next_time_ts <= now + Day

C14_PrematureAdvanceRefused ==
    [][(last'.op = "advance" /\ The(StoredReminder(db, 42, 1)).next_time_ts > now) =>
          /\ last'.err = "Exception"
          /\ StoredReminder(db', 42, 1) = StoredReminder(db, 42, 1)]_vars

\* update_next_time has raised on a reminder that is next due later than now.
C14_Witness_PrematureAdvance ==
    /\ last.op = "advance"
    /\ last.err = "Exception"
    /\ The(StoredReminder(db, 42, 1)).next_time_ts > now

\* The forgot tracker of chat 42 and the time it holds.
Tracker == The(db[42]).reminder_forgot

\* C15: is_notify_needed is false for a tracker that holds no time; for one
\* updated at T it is true exactly when T with its seconds dropped plus 60
\* minutes is not after now: false at every now up to T + 59 min, true at every
\* now from T + 60 min on, whatever the seconds of T.
C15_ForgotDueAfterAnHour ==
    /\ ~IsSome(Tracker.latest_sent_ts) => ~ReminderForgot_is_notify_needed(Tracker, now)
    /\ IsSome(Tracker.latest_sent_ts) =>
          /\ ReminderForgot_is_notify_needed(Tracker, now)
                 <=> (The(Tracker.latest_sent_ts) - (The(Tracker.latest_sent_ts) % 60)
                          + 60 * 60 <= now)
          /\ now <= The(Tracker.latest_sent_ts) + 59 * 60
                 => ~ReminderForgot_is_notify_needed(Tracker, now)
          /\ now >= The(Tracker.latest_sent_ts) + 60 * 60
                 => ReminderForgot_is_notify_needed(Tracker, now)

\* A tracker updated 30 or 59 seconds into a minute is due at the start of the
\* minute an hour later, less than 60 minutes after the update.
C15_Witness_DueOnTheMinute ==
    /\ IsSome(Tracker.latest_sent_ts)
    /\ The(Tracker.latest_sent_ts) % 60 # 0
    /\ now > The(Tracker.latest_sent_ts) + 59 * 60
    /\ now < The(Tracker.latest_sent_ts) + 60 * 60
    /\ ReminderForgot_is_notify_needed(Tracker, now)

\* The states a stored document is stated to rest in.
Resting ==
    {WAIT, STOP, WAIT_FOR_TZ, WAIT_FOR_TZ_WHEN, WAIT_FOR_TZ_HISTORY,
     WAIT_FOR_MORNING_TIME, WAIT_FOR_EVENING_TIME}

\* C16: after a successful transit to START, HISTORY, RECORD, STATUS or a
\* NOTIFY_* state the user is in WAIT, and after any sequence of handled
\* messages and worker cycles every stored document is in one of the resting
\* states.
C16_BounceBackNeverStored ==
    /\ \A c \in AllChats : IsSome(db[c]) => The(db[c]).state \in Resting
    /\ (/\ last.op = "handle"
        /\ last.state \in {START, HISTORY, RECORD, STATUS}
        /\ last.wrote) => The(db[last.chat]).state = WAIT
    /\ last.op = "tick" =>
          \A c \in DOMAIN last.blocks :
             (\E i \in 1..Len(last.blocks[c].log) : last.blocks[c].log[i].wrote)
                 => The(db[c]).state = WAIT

\* A measurement has been recorded: the target was RECORD and the stored
\* document is in WAIT.
C16_Witness_RecordedAndWaiting ==
    /\ last.op = "handle"
    /\ last.state = RECORD
    /\ last.wrote
    /\ The(db[last.chat]).state = WAIT
    /\ Len(The(db[last.chat]).measurements) = 1

\* The readings "H/L" of the model with H and L in 0..1000.
ReadingTexts == {T_120_80, T_0_1000}

\* The user of chat 42 as stored.
Stored(store) == The(store[42])

\* C17: transit(RECORD) on a user in WAIT with the text "H/L", H and L in
\* 0..1000, returns; it appends one measurement with high H and low L at the
\* end of the history, empties the forgot tracker, sends the acknowledgment and
\* nothing else, ends in WAIT and leaves the reminders, the zone and the
\* earlier measurements as they were.
C17_RecordAppendsOne ==
    [][\A text \in ReadingTexts :
          (Stored(db).state = WAIT /\ Transit(42, RECORD, Some(text))) =>
              /\ last'.err = "none"
              /\ Len(Stored(db').measurements) = Len(Stored(db).measurements) + 1
              /\ SubSeq(Stored(db').measurements, 1, Len(Stored(db).measurements))
                     = Stored(db).measurements
              /\ Stored(db').measurements[Len(Stored(db').measurements)].high
                     = DigitsValue(Split(text, "/")[1], 0)
              /\ Stored(db').measurements[Len(Stored(db').measurements)].low
                     = DigitsValue(Split(text, "/")[2], 0)
              /\ Stored(db').reminder_forgot.latest_sent_ts = None
              /\ sent' = <<[chat |-> 42, parts |-> <<Msg("thanks_record", <<>>)>>]>>
              /\ Stored(db').state = WAIT
              /\ Stored(db').reminder_morning = Stored(db).reminder_morning
              /\ Stored(db').reminder_evening = Stored(db).reminder_evening
              /\ Stored(db').tz = Stored(db).tz]_vars

\* 0/1000 has been recorded for a user who had one measurement and a set
\* tracker: the history has two, the new one last, and the tracker is empty.
C17_Witness_SecondReading ==
    /\ last.op = "transit"
    /\ last.from = WAIT
    /\ last.state = RECORD
    /\ last.err = "none"
    /\ Len(Stored(db).measurements) = 2
    /\ Stored(db).measurements[1].high = 120
    /\ Stored(db).measurements[2].high = 0
    /\ Stored(db).measurements[2].low = 1000
    /\ Stored(db).reminder_morning # None

\* The notification text of check k.
Notification(k) ==
    [chat |-> 42, parts |-> <<Msg(IF k = 1 THEN "notify_morning" ELSE "notify_evening", <<>>)>>]

\* C18: transit(NOTIFY_MORNING) (k = 1; NOTIFY_EVENING for k = 2) on a user in
\* WAIT, when it returns, has put that reminder's next time exactly a day
\* later, set the forgot tracker to now, sent the notification text and nothing
\* else, ended in WAIT and left the other reminder, the zone and the history as
\* they were; when it raises (update_next_time refuses, or there is no such
\* reminder) it has sent nothing and the tracker of the user object is as it was.
C18_NotifyAdvancesAndTracks ==
    [][\A k \in {1, 2}, text \in DispatcherTexts :
          (Stored(db).state = WAIT /\ Transit(42, NotifyState(k), text)) =>
              IF last'.err = "none"
              THEN /\ The(StoredReminder(db', 42, k)).next_time_ts
                          = The(StoredReminder(db, 42, k)).next_time_ts + Day
                   /\ Stored(db').reminder_forgot.latest_sent_ts = Some(now)
                   /\ sent' = <<Notification(k)>>
                   /\ Stored(db').state = WAIT
                   /\ StoredReminder(db', 42, 3 - k) = StoredReminder(db, 42, 3 - k)
                   /\ Stored(db').tz = Stored(db).tz
                   /\ Stored(db').measurements = Stored(db).measurements
              ELSE /\ sent' = <<>>
                   /\ db' = db
                   /\ transit(Context(Stored(db), text, None, now, 0), NotifyState(k)).u
                          = Stored(db)]_vars

\* The evening reminder of a user with a measurement has been notified: the
\* tracker holds now and the history is as it was.
C18_Witness_EveningNotified ==
    /\ last.op = "transit"
    /\ last.from = WAIT
    /\ last.state = NOTIFY_EVENING
    /\ last.err = "none"
    /\ sent = <<Notification(2)>>
    /\ Stored(db).reminder_forgot.latest_sent_ts = Some(now)
    /\ Len(Stored(db).measurements) = 1

\* A handled /stop whose transit started from WAIT or STOP has written the
\* document: both reminders are absent, the history and the zone are as stored.
StoppedKeepsTheRest ==
    (/\ last'.op = "handle" /\ last'.state = STOP /\ last'.from \in {WAIT, STOP}
     /\ last'.err = "none") =>
        /\ Stored(db').state = STOP
        /\ Stored(db').reminder_morning = None
        /\ Stored(db').reminder_evening = None
        /\ Stored(db').measurements = Stored(db).measurements
        /\ Stored(db').tz = Stored(db).tz

\* No stored document is deleted, and none loses a measurement or its zone.
NothingRemoved ==
    \A c \in AllChats :
        IsSome(db[c]) =>
            /\ IsSome(db'[c])
            /\ Kept(History(db, c), History(db', c))
            /\ IsSome(The(db[c]).tz) => IsSome(The(db'[c]).tz)

\* C19 as stated: a transit to STOP from WAIT or STOP clears both reminders and
\* keeps the history and the zone, and no operation ever deletes a stored
\* document or removes a measurement or the zone from it.
C19_StopKeepsHistoryAndZone ==
    [][StoppedKeepsTheRest /\ NothingRemoved]_vars

\* C19 amended: the same for every operation during which no other call wrote
\* the chat's document between its load and its write; no operation at all
\* deletes a stored document.
C19_StopKeepsHistoryAndZoneUnlessOverlap ==
    [][/\ \A c \in AllChats : IsSome(db[c]) => IsSome(db'[c])
       /\ ~last'.stale => (StoppedKeepsTheRest /\ NothingRemoved)]_vars

\* /stop from a user in WAIT with a stored measurement has been handled, no
\* write in between: the reminders are gone, the measurement and the zone are
\* still stored.
C19_Witness_StoppedWithHistory ==
    /\ last.op = "handle"
    /\ last.state = STOP
    /\ last.from = WAIT
    /\ last.wrote
    /\ ~last.stale
    /\ Stored(db).reminder_morning = None
    /\ Stored(db).reminder_evening = None
    /\ Len(Stored(db).measurements) >= 1
    /\ IsSome(Stored(db).tz)

\* The welcome text is among the messages `out` sent to chat c.
Welcomed(out, c) ==
    \E i \in 1..Len(out) : out[i] = [chat |-> c, parts |-> <<Msg("starting", <<>>)>>]

\* /start for a chat with a stored document is refused with MachineError and
\* sends no welcome; a stored document stays stored and is never in INITIAL.
LaterStartRefused(c) ==
    /\ (last'.op = "handle" /\ last'.chat = c /\ last'.state = START /\ IsSome(db[c])) =>
           (last'.err = "MachineError" /\ ~Welcomed(sent', c))
    /\ IsSome(db[c]) => IsSome(db'[c])
    /\ IsSome(db'[c]) => The(db'[c]).state # INITIAL

\* C20 as stated: the welcome is sent only to a chat with no stored document,
\* once, and the document is then stored in WAIT; no stored document is ever in
\* INITIAL or deleted, so every later /start of the chat is refused with
\* MachineError and the welcome is sent at most once to a chat.
C20_WelcomeOnce ==
    [][\A c \in AllChats :
          /\ Welcomed(sent', c) =>
                /\ ~IsSome(db[c])
                /\ Cardinality({i \in 1..Len(sent') : sent'[i].chat = c}) = 1
                /\ IsSome(db'[c]) /\ The(db'[c]).state = WAIT
          /\ LaterStartRefused(c)]_vars

\* C20 amended: the same, except that the document is stored in WAIT after the
\* welcome unless the store refuses the write; the chat then still has no
\* document and its next /start sends the welcome again.
C20_WelcomeOncePerStoredChat ==
    [][\A c \in AllChats :
          /\ Welcomed(sent', c) =>
                /\ ~IsSome(db[c])
                /\ Len(sent') \in {1, 2}
                /\ IF last'.wrote THEN IsSome(db'[c]) /\ The(db'[c]).state = WAIT
                   ELSE ~IsSome(db'[c]) /\ ~last'.clean
          /\ LaterStartRefused(c)]_vars

\* A second /start, from a chat whose first /start stored it in WAIT, has been
\* refused: the wrong-state message is all that is sent.
C20_Witness_SecondStartRefused ==
    /\ last.op = "handle"
    /\ last.state = START
    /\ last.from = WAIT
    /\ last.err = "MachineError"
    /\ sent = <<WrongState(last.chat)>>

\* The states with an exit callback.
Sticky ==
    {WAIT_FOR_MORNING_TIME, WAIT_FOR_EVENING_TIME, WAIT_FOR_TZ, WAIT_FOR_TZ_WHEN, WAIT_FOR_TZ_HISTORY}

\* The confirmation the exit callback of a WAIT_FOR_TZ state sends for user u.
ZoneConfirmation(u) ==
    [chat |-> 42, parts |-> <<Msg("thanks", <<>>), Msg("tz", <<UtcOffset(The(u.tz).name)>>)>>]

\* The transit of the step from the stored user, whatever the geocoder answers:
\* when it raises, the machine and the user object are in the state they were
\* in, and the user object is as loaded.
RaisedInPlace(target, text) ==
    \A geo \in GeoAsked(Stored(db)) :
       transit(Context(Stored(db), text, geo, now, 0), target).err # "none" =>
          /\ transit(Context(Stored(db), text, geo, now, 0), target).state = Stored(db).state
          /\ transit(Context(Stored(db), text, geo, now, 0), target).u = Stored(db)

\* C21: a transit runs the table's test, the exit callback of the state left,
\* the state change and the enter callback of the new state in that order.
\* From WAIT_FOR_TZ_WHEN to WAIT_FOR_MORNING_TIME the zone is set and its
\* confirmation, showing that zone, is sent before the morning-time prompt;
\* from WAIT_FOR_TZ_HISTORY to HISTORY the confirmation is sent before the
\* history list, which is shown in the new zone; and when the exit callback of
\* a state that has one raises in a transit the table allows, nothing is sent,
\* the state is not changed and nothing is stored.
C21_ExitThenStateThenEnter ==
    [][/\ (/\ last'.op = "transit"
           /\ last'.from = WAIT_FOR_TZ_WHEN
           /\ last'.state = WAIT_FOR_MORNING_TIME
           /\ last'.err = "none") =>
              /\ IsSome(Stored(db').tz)
              /\ Stored(db').state = WAIT_FOR_MORNING_TIME
              /\ sent' = <<ZoneConfirmation(Stored(db')),
                           [chat |-> 42, parts |-> <<Msg("wait_for_morning_time", <<>>)>>]>>
       /\ (/\ last'.op = "transit"
           /\ last'.from = WAIT_FOR_TZ_HISTORY
           /\ last'.state = HISTORY
           /\ last'.err = "none") =>
              /\ IsSome(Stored(db').tz)
              /\ Stored(db').state = WAIT
              /\ sent' = <<ZoneConfirmation(Stored(db')),
                           [chat |-> 42, parts |-> <<The(Messages_history(Stored(db')))>>]>>
       /\ (/\ last'.op = "transit"
           /\ last'.from \in Sticky
           /\ CanTrigger("to_" \o last'.state, last'.from)
           /\ last'.err # "none") =>
              /\ sent' = <<>>
              /\ db' = db
              /\ \A text \in DispatcherTexts : RaisedInPlace(last'.state, text)]_vars

\* A user with one measurement has left WAIT_FOR_TZ_HISTORY for HISTORY, the
\* geocoder finding the city: the confirmation and then the history list have
\* been sent, and the user is back in WAIT.
C21_Witness_ZoneThenHistory ==
    /\ last.op = "transit"
    /\ last.from = WAIT_FOR_TZ_HISTORY
    /\ last.state = HISTORY
    /\ last.err = "none"
    /\ Len(sent) = 2
    /\ sent[1] = ZoneConfirmation(Stored(db))
    /\ sent[2].parts[1].kind = "history"
    /\ Len(Stored(db).measurements) = 1
    /\ Stored(db).state = WAIT

\* The messages of a sequence that went to chat c.
SentTo(out, c) == SelectSeq(out, LAMBDA msg : msg.chat = c)

\* Chat c's stored user is in WAIT with the morning and the evening reminder
\* both due at the clock's time.
BothDue(c) ==
    /\ IsSome(db[c])
    /\ The(db[c]).state = WAIT
    /\ CheckDue(The(db[c]), 1, now)
    /\ CheckDue(The(db[c]), 2, now)

\* C22: the worker's checks are not mutually exclusive.  In a cycle in which
\* the environment refuses nothing, a user in WAIT whose morning and evening
\* reminders are both due is sent the morning and then the evening notification
\* and nothing else, the document is written after each, and the document
\* stored at the end of the cycle has both reminders a day later, state WAIT
\* and the forgot tracker at the time of the notifications.
C22_BothRemindersInOneCycle ==
    [][\A c \in AllChats :
          (BothDue(c) /\ last'.op = "tick" /\ last'.clean) =>
              /\ c \in DOMAIN last'.blocks
              /\ last'.blocks[c].err = "none"
              /\ last'.blocks[c].log =
                    <<[k |-> 1, due |-> DueInstant(The(db[c]), 1), delivered |-> TRUE, wrote |-> TRUE],
                      [k |-> 2, due |-> DueInstant(The(db[c]), 2), delivered |-> TRUE, wrote |-> TRUE]>>
              /\ SentTo(sent', c) =
                    <<[chat |-> c, parts |-> <<Msg("notify_morning", <<>>)>>],
                      [chat |-> c, parts |-> <<Msg("notify_evening", <<>>)>>]>>
              /\ The(db'[c]).reminder_morning =
                    Some([The(The(db[c]).reminder_morning) EXCEPT !.next_time_ts = @ + Day])
              /\ The(db'[c]).reminder_evening =
                    Some([The(The(db[c]).reminder_evening) EXCEPT !.next_time_ts = @ + Day])
              /\ The(db'[c]).state = WAIT
              /\ The(db'[c]).reminder_forgot.latest_sent_ts = Some(now)]_vars

\* A cycle has sent chat 42 the morning and the evening notification, both
\* reminders being due since the day before: both are now due later than the
\* clock's time and the tracker holds it.
C22_Witness_BothNotified ==
    /\ last.op = "tick"
    /\ last.clean
    /\ Len(last.blocks[42].log) = 2
    /\ last.blocks[42].log[1].k = 1
    /\ last.blocks[42].log[2].k = 2
    /\ Len(SentTo(sent, 42)) = 2
    /\ ~CheckDue(The(db[42]), 1, now)
    /\ ~CheckDue(The(db[42]), 2, now)
    /\ The(db[42]).reminder_forgot.latest_sent_ts = Some(now)

\* C23: the sleep at the end of a cycle lasts 60 - (seconds since start_time
\* mod 60) seconds: more than 0, at most 60, and the next cycle begins at the
\* start of a wall-clock minute however long the pass over the users took.
C23_SleepToTheMinute ==
    [][(wpc = "sleep" /\ wpc' = "run") =>
          /\ now' - now = Minute - ((now - start_time) % Minute)
          /\ now' - now > 0
          /\ now' - now <= Minute
          /\ FromTimestamp(now') % Minute = 0]_vars

\* The thread is at the top of the loop three minutes after start_time: it has
\* slept, after passes that took it past a minute's start.
C23_Witness_AwakeOnTheMinute ==
    /\ wpc = "run"
    /\ now = start_time + 3 * Minute
    /\ start_time = Midnight + 3540

\* The notification texts of the worker.
NotifyTexts == {"notify_morning", "notify_evening", "notify_forgot"}

\* C24: stopping silences the worker for that user.  A user whose stored
\* document has no reminder (a transit to STOP was persisted and no reminder
\* has been configured since, or none ever was) is sent no notification text by
\* a worker cycle, whatever state the user is in by then and whether or not a
\* forgot nudge was pending when the reminders were stopped.
C24_StoppedUserNotNotified ==
    \A c \in AllChats :
       (/\ last.op = "tick"
        /\ IsSome(db[c])
        /\ The(db[c]).reminder_morning = None
        /\ The(db[c]).reminder_evening = None) =>
           \A i \in 1..Len(sent) :
              sent[i].chat = c => \A j \in 1..Len(sent[i].parts) : sent[i].parts[j].kind \notin NotifyTexts

\* C25: the worker never has a transit refused by the transition table: no
\* check of a cycle raises MachineError, and a cycle sends no wrong-state text,
\* whatever state the users with a due reminder or a due forgot tracker are in.
C25_WorkerNeverRefused ==
    last.op = "tick" =>
        /\ \A c \in DOMAIN last.blocks : last.blocks[c].err # "MachineError"
        /\ \A i \in 1..Len(sent) :
              \A j \in 1..Len(sent[i].parts) : sent[i].parts[j].kind # "wrong_state"

\* C26: the worker never has update_next_time raise.  Every morning or evening
\* check a cycle calls is for a reminder whose next time has come, so that
\* update_next_time, reading the clock then or at any later reading, does not
\* refuse; and in a cycle in which the environment refuses nothing the only
\* exception a user's block ends with is the table's MachineError.
C26_WorkerNeverPremature ==
    last.op = "tick" =>
        \A c \in DOMAIN last.blocks :
           \A i \in 1..Len(last.blocks[c].log) :
              last.blocks[c].log[i].k \in {1, 2} =>
                 /\ \A t \in Instants :
                       t >= now =>
                          IsSome(Reminder_update_next_time(
                                     [next_time_ts |-> last.blocks[c].log[i].due], t))
                 /\ last.clean => last.blocks[c].err \in {"none", "MachineError"}

\* A cycle has called the morning check for chat 42 with a reminder due half a
\* minute before: the notification went out and the reminder is next due a
\* day later.
C26_Witness_AdvancedWhenDue ==
    /\ last.op = "tick"
    /\ last.clean
    /\ Len(last.blocks[42].log) = 1
    /\ last.blocks[42].log[1].k = 1
    /\ last.blocks[42].log[1].delivered
    /\ last.blocks[42].log[1].due = now - 30
    /\ The(The(db[42]).reminder_morning).next_time_ts = now - 30 + Day

\* C27: in every stored document a morning or an evening reminder comes with
\* a zone.  A transit never takes the zone of the stored document away (the
\* zone changes only on leaving one of the WAIT_FOR_TZ states), and a transit
\* that leaves WAIT_FOR_MORNING_TIME or WAIT_FOR_EVENING_TIME for a user with
\* no zone raises and stores nothing.
C27_ReminderImpliesZone ==
    /\ [](\A c \in AllChats :
             (IsSome(db[c]) /\ (IsSome(The(db[c]).reminder_morning)
                                \/ IsSome(The(db[c]).reminder_evening)))
                => IsSome(The(db[c]).tz))
    /\ [][/\ IsSome(Stored(db).tz) => IsSome(Stored(db').tz)
          /\ Stored(db').tz # Stored(db).tz =>
                 last'.from \in {WAIT_FOR_TZ, WAIT_FOR_TZ_WHEN, WAIT_FOR_TZ_HISTORY}
          /\ (/\ last'.op = "transit"
              /\ Stored(db).state \in {WAIT_FOR_MORNING_TIME, WAIT_FOR_EVENING_TIME}
              /\ ~IsSome(Stored(db).tz)) =>
                 /\ last'.err # "none"
                 /\ db' = db]_vars

\* A user with a zone has answered the morning-time prompt with 04:00: the
\* morning reminder is stored, in the user's zone.
C27_Witness_CreatedInTheZone ==
    /\ last.op = "transit"
    /\ last.from = WAIT_FOR_MORNING_TIME
    /\ last.state = WAIT_FOR_EVENING_TIME
    /\ last.err = "none"
    /\ IsSome(Stored(db).reminder_morning)
    /\ ~IsSome(Stored(db).reminder_evening)
    /\ Stored(db).tz = Some(The(Stored(db).reminder_morning).tz)

====
